---- MODULE Spec2Model ----
(***************************************************************************)
(* A model of the ai-shogun coordinator: the ledger, the mailbox and       *)
(* restart watchers (two-phase file queues), and the agent runtime.        *)
(*                                                                         *)
(* Part 1: ledger (server/src/message/ledger.ts) and the two watchers      *)
(* (server/src/message/watcher.ts, server/src/restart/watcher.ts).         *)
(***************************************************************************)
EXTENDS Integers, Sequences, FiniteSets, TLC

\* ---------------------------------------------------------------- bounds
\* How many files the producers write in all (under any names).
MaxDrops == 2
\* How many times the process may crash (or be closed) and start again.
MaxCrashes == 2
\* How far the wall clock of the ledger specification advances.
MaxClock == 2
\* How many saves the ledger specification lets wait in the save chain.
MaxChain == 2
\* How many times the launcher spawns the server in all.
MaxSpawns == 3
\* How many versions of a JSON file are written in all.
MaxVersions == 3
\* How long the titles and the thread ids given to the message writer are.
MaxTitleLen == 3
MaxThreadLen == 2

\* File names (= ledger keys).  A mailbox file stands for
\* message_to/{to}/from/{from}/{stem}.md, a restart file for
\* tmp/restart/requests/{name}.json.
MailFiles == {"m1", "m2", "m3"}
RestartFiles == {"r1", "r2"}
Files == MailFiles \cup RestartFiles

\* The two ledgers: message_ledger.json and restart_ledger.json.
Ledgers == {"mail", "restart"}
\* restart/watcher.ts
RESTART_EXIT_CODE == 75
\* No exit code: the process runs (or, for an 'exit' event, `code` is null).
NotExited == -1
\* At a path: no file there (ENOENT), and a file fs.writeFile has not finished.
Absent == 0
Partial == -1

\* nanoid(6)
TokenLen == 6

\* slugify: .slice(0, 60)
SlugMax == 60
ledgerOf(f) == IF f \in MailFiles THEN "mail" ELSE "restart"

VARIABLES
  \* --- filesystem (survives a crash)
  pendingDir,     \* [Files -> 0..MaxDrops]: the file in message_to/ (requests/), 0 = none
  processingDir,  \* [Files -> 0..MaxDrops]: the file in message_processing/ (processing/)
  archiveDir,     \* [Files -> 0..MaxDrops]: the file at its history archive path
  jsonl,          \* [MailFiles -> Nat]: entries of messages.jsonl with this message id
  ledgerDisk,     \* [Files -> entry]: message_ledger.json / restart_ledger.json
  \* --- process memory (lost by a crash)
  up,             \* the process (both watchers) is running
  ledgerMem,      \* [Files -> entry]: MessageLedger.entries
  saveChain,      \* [ledger -> MessageLedger.saveChain: the callers whose write has
                  \*  not run yet]; one ledger per watcher
  events,         \* chokidar 'add' events for processing paths not yet delivered
  pc,             \* [Files -> position of processClaimedMessage/-Request for the path]
  msg,            \* [Files -> the generation the task read from the file]
  \* --- environment and history variables
  dropCount,      \* [Files -> how many files were written under this name]
  handled,        \* the handler invocations so far: <<file name, generation>>
  crashes,        \* crashes so far
  startFound,     \* [Files -> the ledger status of a file the last start found in
                  \*  message_processing/ (processing/), "absent" when it found none]
  clock,          \* the wall clock (new Date()) of the ledger specification
  \* --- the server process and its launcher
  restarting,     \* index.ts: `restarting`
  closed,         \* the server has closed its two watchers
  exitCode,       \* the exit code of the server process, NotExited while it runs
  shuttingDown,   \* launcher: `shuttingDown`
  children,       \* launcher: the labels in `children`
  exits,          \* child 'exit' events not yet delivered: [label, code, signal]
  launcher,       \* the launcher process: its program, state, exit code, the signal it
                  \*  raised on itself and the signals it received
  spawns,         \* how many times the launcher spawned the server
  \* --- one JSON file (a ledger, state.json) and the store that keeps it
  disk,           \* [file, bak, temp]: the versions at the path, at path.bak and at
                  \*  the temporary path
  writer,         \* [pc, content]: where writeJsonFile stands and what it writes;
                  \*  pc "down" after the process died
  loaded,         \* what the last load returned
  saved,          \* the last version a writeJsonFile call completed with
  \* --- one message file name, from the writer to the watcher
  messageTitle,   \* [pc, threadId, title, date, unique, stem, parsed]
  \* --- index.ts: the handler of the mailbox watcher
  onMessagePc,    \* [mail file -> where the onMessage call for it stands]
  stateStore,     \* [updatedAt: thread -> how often it was set, lastActiveThread]
  broadcasts,     \* the messages sent to the clients as `message` events
  \* --- the provider sessions of the state store
  threads,        \* the thread ids of stateStore.state.threads
  sessions,       \* [agent -> [thread -> thread.sessions[agent]: provider thread id
                  \*  (0 = no session) and initialized]]
  providerThreads,\* how many threads the provider has created
  sessionTurn,    \* [agent -> where its turn stands in ensureSession, its thread and
                  \*  the provider thread id ensureSession returned]
  sessionLog      \* history: [agent -> [thread -> createThread calls, system-prompt
                  \*  initializations by sendMessage, ids used by turns, turns begun]]

\* The sessions and the turns that use them.
yvars == <<threads, sessions, providerThreads, sessionTurn, sessionLog>>

\* What the handler of index.ts keeps.
uvars == <<onMessagePc, stateStore, broadcasts, yvars>>

fvars == <<disk, writer, loaded, saved, messageTitle, uvars>>

svars == <<restarting, closed, exitCode, shuttingDown, children, exits, launcher, spawns,
           fvars>>

wvars == <<pendingDir, processingDir, archiveDir, jsonl, ledgerDisk, up, ledgerMem,
           saveChain, events, pc, msg, dropCount, handled, crashes, startFound, clock,
           svars>>

\* ---------------------------------------------------------------- message file names
\* Strings are sequences of characters. The thread ids, titles and tokens of
\* the model are made of a few characters of each class: lower-case letters
\* and digits, one upper-case letter, and the underscore and the hyphen, which
\* nanoid's alphabet (A-Za-z0-9_-) has too.
az09 == {"a", "b", "t", "x", "m", "e", "s", "g", "1", "2", "3", "4", "5"}

TitleChars == {"a", "B", "_"}

ThreadChars == {"t", "_", "-"}

urlAlphabet == {"x", "_"}

Strings(chars, n) == UNION {[1..k -> chars] : k \in 0..n}

\* The separator of the parts of a stem.
sep == <<"_", "_">>

\* The first index at which `s` holds the separator, 0 when it holds none.
indexOfSep(s) ==
  LET at == {i \in 1..(Len(s) - 1) : s[i] = "_" /\ s[i + 1] = "_"}
  IN IF at = {} THEN 0 ELSE CHOOSE i \in at : \A j \in at : i <= j

containsSep(s) == indexOfSep(s) # 0

\* The thread ids the writer is given: without '__'.
ThreadIds == {s \in Strings(ThreadChars, MaxThreadLen) : s # <<>> /\ ~containsSep(s)}

Titles == Strings(TitleChars, MaxTitleLen)

\* nanoid(6)
Tokens == [1..TokenLen -> urlAlphabet]

\* new Date().toISOString(), shortened to one field on each side of every
\* separator it has.
Dates == {<<"1", "T", "2", ":", "3", ".", "4", "Z">>, <<"1", "T", "2", ":", "3", ".", "5", "Z">>}

toLowerCase(value) == [i \in DOMAIN value |-> IF value[i] = "B" THEN "b" ELSE value[i]]

RECURSIVE skipNonAlnum(_)
skipNonAlnum(s) ==
  IF s # <<>> /\ Head(s) \notin az09 THEN skipNonAlnum(Tail(s)) ELSE s

\* .replace(/[^a-z0-9]+/g, "-")
RECURSIVE replaceNonAlnum(_)
replaceNonAlnum(s) ==
  IF s = <<>> THEN <<>>
  ELSE IF Head(s) \in az09 THEN <<Head(s)>> \o replaceNonAlnum(Tail(s))
  ELSE <<"-">> \o replaceNonAlnum(skipNonAlnum(s))

RECURSIVE trimLeft(_)
trimLeft(s) == IF s # <<>> /\ Head(s) = "-" THEN trimLeft(Tail(s)) ELSE s

RECURSIVE trimRight(_)
trimRight(s) ==
  IF s # <<>> /\ s[Len(s)] = "-" THEN trimRight(SubSeq(s, 1, Len(s) - 1)) ELSE s

\* .replace(/^-+|-+$/g, "")
trimHyphens(s) == trimRight(trimLeft(s))

\* .slice(0, end)
slice(s, end) == SubSeq(s, 1, IF Len(s) < end THEN Len(s) ELSE end)

slugify(value) ==
  LET cleaned == slice(trimHyphens(replaceNonAlnum(toLowerCase(value))), SlugMax)
  IN IF Len(cleaned) > 0 THEN cleaned ELSE <<"m", "e", "s", "s", "a", "g", "e">>

\* date.toISOString().replace(/[:.]/g, "-")
toFileTimestamp(date) ==
  [i \in DOMAIN date |-> IF date[i] \in {":", "."} THEN "-" ELSE date[i]]

\* `${threadId}__${toFileTimestamp()}-${unique}__${slug}`, with the date and
\* the token the call drew.
buildMessageTitle(threadId, title, date, unique) ==
  threadId \o sep \o toFileTimestamp(date) \o <<"-">> \o unique \o sep \o slugify(title)

\* fileName.split("__"): the matches are taken from the left and do not overlap.
RECURSIVE split(_)
split(s) ==
  LET i == indexOfSep(s)
  IN IF i = 0 THEN <<s>>
     ELSE <<SubSeq(s, 1, i - 1)>> \o split(SubSeq(s, i + 2, Len(s)))

\* parts.join("__")
RECURSIVE join(_)
join(parts) ==
  IF Len(parts) = 1 THEN parts[1] ELSE parts[1] \o sep \o join(Tail(parts))

\* A thread id of null.
Null == <<"null">>

parseTitle(fileName) ==
  LET parts == split(fileName)
  IN IF Len(parts) >= 3
       THEN [threadId |-> parts[1], title |-> join(SubSeq(parts, 3, Len(parts)))]
     ELSE IF Len(parts) = 2 THEN [threadId |-> parts[1], title |-> parts[2]]
     ELSE [threadId |-> Null, title |-> fileName]

NoTitle ==
  [pc |-> "none", threadId |-> <<>>, title |-> <<>>, date |-> <<>>, unique |-> <<>>,
   stem |-> <<>>, parsed |-> [threadId |-> Null, title |-> <<>>]]

\* ---------------------------------------------------------------- ledger
LedgerStatuses == {"history", "job_done", "done"}

NoEntry == [status |-> "none", updatedAt |-> 0]

\* statusRank, with 0 for a key the ledger has no entry for.
statusRank(status) ==
  CASE status = "history" -> 1
    [] status = "job_done" -> 2
    [] status = "done" -> 3
    [] OTHER -> 0

shouldUpgrade_AlwaysMutant(current, next) == TRUE

shouldUpgrade(current, next) == statusRank(next) > statusRank(current)

isAtLeast(entries, key, status) ==
  /\ entries[key] # NoEntry
  /\ statusRank(entries[key].status) >= statusRank(status)

\* MessageLedger.mark up to its await: the new in-memory entries.
markEntries(entries, key, status) ==
  IF entries[key] # NoEntry /\ ~shouldUpgrade(entries[key].status, status)
  THEN entries
  ELSE [entries EXCEPT ![key] = [status |-> status, updatedAt |-> clock]]

\* Whether mark reaches `await this.save()`.
markSaves(entries, key, status) ==
  entries[key] = NoEntry \/ shouldUpgrade(entries[key].status, status)

\* MessageLedger.load: the entries of the file, {} when there is none.
load == ledgerDisk

\* ---------------------------------------------------------------- agent runtimes: state
\* How many messages the server hands to the runtimes in all.
MaxMsgs == 2
\* How many times the provider asks for waitForMessage in one turn (every wait
\* lengthens the loop limit of the turn by one).
MaxWaits == 1
\* How many passes of the tool loop of one turn are followed.
MaxPasses == 15

VARIABLES
  sent,            \* [message id -> its recipient runtime and threadId], NoMsg before enqueue
  calls,           \* [message id -> where the enqueue call for it stands]
  completion,      \* [message id -> state of the promise enqueue returned]
  queue,           \* [agent -> AgentRuntime.queue (message ids)]
  busy,            \* [agent -> AgentRuntime.busy]
  stopRequested,   \* [agent -> AgentRuntime.stopRequested]
  abortReason,     \* [agent -> AgentRuntime.abortReason]
  abortController, \* [agent -> "null", "live" or "aborted"]
  messageWaiter,   \* [agent -> threadId the suspended waitForMessage waits on, "none"]
  timers,          \* the asynchronous blocks wait timers have started
  waits,           \* [agent -> [threadId -> wait record on disk]]
  turn,            \* [agent -> locals of the processQueue / runWithTools activation]
  running,         \* [agent -> number of turns executing]
  received,        \* [agent -> message ids in the order the provider first got them]
  written,         \* mailbox files the runtimes wrote: [from, to, kind]
  resumes,         \* [agent -> where resumePendingWaits stands]
  starts,          \* [message id -> turns begun with it as primary message in this run]
  exitWaits        \* the wait records as they were when the process last exited

rvars == <<sent, calls, completion, queue, busy, stopRequested, abortReason, abortController,
           messageWaiter, timers, waits, turn, running, received, written, resumes,
           starts, exitWaits>>

Agents == {"shogun", "karou", "ashigaru1", "ashigaru2"}
ashigaruIds == {"ashigaru1", "ashigaru2"}
\* Names a tool call may put in `to`.
Recipients == Agents \cup {"king"}
Threads == {"t1", "t2"}
Msgs == 1..MaxMsgs
\* The ids the runtime variables range over: where batches are formed one message
\* more than Msgs is enqueued, so that two can queue behind a running turn.
MsgIds == 1..(MaxMsgs + 1)

roleOf(agentId) == IF agentId \in ashigaruIds THEN "ashigaru" ELSE agentId

\* permissions.ts
buildAllowedRecipients_SelfMutant(agentId, role, ids) ==
  CASE role = "shogun" -> {"king", "karou"}
    [] role = "karou" -> {"shogun"} \cup ids
    [] OTHER -> {"karou"} \cup ids

buildAllowedRecipients(agentId, role, ids) ==
  CASE role = "shogun" -> {"king", "karou"}
    [] role = "karou" -> {"shogun"} \cup ids
    [] OTHER -> {"karou"} \cup {id \in ids : id # agentId}

\* AgentRuntimeOptions.allowedRecipients as AgentManager.buildAgents passes it.
allowedRecipients(agentId) == buildAllowedRecipients(agentId, roleOf(agentId), ashigaruIds)

isDirectSubordinate(role, target) ==
  CASE role = "shogun" -> target = "karou"
    [] role = "karou" -> target \in ashigaruIds
    [] OTHER -> FALSE

getAutoReplyRecipient(role) ==
  CASE role = "shogun" -> "king"
    [] role = "karou" -> "shogun"
    [] OTHER -> "karou"

waitLimit == 10
\* A wait that names no timeout gets this one; a wait with timeoutMs=0 has no timer.
defaultWaitTimeoutMs == 60000
maxLoopsInitial == 3

NoMsg == [to |-> "none", threadId |-> "none"]
\* No file under waits/pending for the key.
NoWait == [status |-> "none", messageId |-> 0, receivedMessage |-> 0, timeoutMs |-> 0]
\* An input or a tool result carries no recipient list.
NoList == {"-"}
NoInput == [kind |-> "none", ids |-> <<>>, results |-> <<>>]
\* resumePendingWaits has not been called.
NoResume == [pc |-> "none", records |-> {}]
IdleTurn ==
  [pc |-> "idle", batch |-> <<>>, i |-> 0, maxLoops |-> 0, waitRemaining |-> 0,
   input |-> NoInput, output |-> "", tools |-> <<>>, count |-> 0, results |-> <<>>,
   waitEncountered |-> FALSE, waited |-> 0, resumed |-> FALSE, record |-> NoWait,
   timeoutMs |-> 0]

\* The runtimes as AgentManager constructs them.
RInit ==
  /\ sent = [m \in MsgIds |-> NoMsg]
  /\ calls = [m \in MsgIds |-> [pc |-> "none", record |-> NoWait]]
  /\ completion = [m \in MsgIds |-> "none"]
  /\ queue = [a \in Agents |-> <<>>]
  /\ busy = [a \in Agents |-> FALSE]
  /\ stopRequested = [a \in Agents |-> FALSE]
  /\ abortReason = [a \in Agents |-> "null"]
  /\ abortController = [a \in Agents |-> "null"]
  /\ messageWaiter = [a \in Agents |-> "none"]
  /\ timers = {}
  /\ waits = [a \in Agents |-> [t \in Threads |-> NoWait]]
  /\ turn = [a \in Agents |-> IdleTurn]
  /\ running = [a \in Agents |-> 0]
  /\ received = [a \in Agents |-> <<>>]
  /\ written = {}
  /\ resumes = [a \in Agents |-> NoResume]
  /\ starts = [m \in MsgIds |-> 0]
  /\ exitWaits = [a \in Agents |-> [t \in Threads |-> NoWait]]

\* The process exits: the runtimes' memory (queues, turns, waiters, timers, calls
\* in progress) is lost; the wait records, the provider sessions and the mailbox
\* stay.
runtimeExit ==
  /\ calls' = [m \in MsgIds |-> IF calls[m].pc = "none" THEN calls[m]
                                ELSE [pc |-> "gone", record |-> NoWait]]
  /\ completion' = [m \in MsgIds |-> "none"]
  /\ queue' = [a \in Agents |-> <<>>]
  /\ busy' = [a \in Agents |-> FALSE]
  /\ stopRequested' = [a \in Agents |-> FALSE]
  /\ abortReason' = [a \in Agents |-> "null"]
  /\ abortController' = [a \in Agents |-> "null"]
  /\ messageWaiter' = [a \in Agents |-> "none"]
  /\ timers' = {}
  /\ turn' = [a \in Agents |-> IdleTurn]
  /\ running' = [a \in Agents |-> 0]
  /\ resumes' = [a \in Agents |-> NoResume]
  /\ starts' = [m \in MsgIds |-> 0]
  /\ exitWaits' = waits
  /\ UNCHANGED <<sent, waits, received, written>>

\* ---------------------------------------------------------------- watchers
IsMail(f) == f \in MailFiles

\* A write into the save chain by task `who`: MessageLedger.save chains one
\* writeJsonFile after the writes already issued.
chainPush(chain, l, who) == [chain EXCEPT ![l] = Append(@, who)]

\* The external producer (writeMessageFile, a test, an operator) renames a new
\* file into message_to/ (requests/).
dropped ==
  dropCount["m1"] + dropCount["m2"] + dropCount["m3"] + dropCount["r1"] + dropCount["r2"]

rename(f) ==
  /\ pendingDir[f] = 0
  /\ dropCount' = [dropCount EXCEPT ![f] = @ + 1]
  /\ pendingDir' = [pendingDir EXCEPT ![f] = dropCount[f] + 1]
  /\ UNCHANGED <<processingDir, archiveDir, jsonl, ledgerDisk, up, ledgerMem, saveChain,
                 events, pc, msg, handled, crashes, startFound, clock>>

Drop(f) ==
  /\ dropped < MaxDrops
  /\ rename(f)
  /\ UNCHANGED rvars
  /\ UNCHANGED svars

\* watcher.on("add") for a path under message_to/: claimPendingMessage renames the
\* file to its mirror path under message_processing/.  chokidar then reports the
\* processing path; when the rename replaced a file that was already there the
\* library may report a change instead of an add, so the event is optional then.
claimPendingMessage(f) ==
  /\ up
  /\ ~closed
  /\ pendingDir[f] # 0
  /\ pendingDir' = [pendingDir EXCEPT ![f] = 0]
  /\ processingDir' = [processingDir EXCEPT ![f] = pendingDir[f]]
  /\ \/ events' = events \cup {f}
     \/ processingDir[f] # 0 /\ events' = events
  /\ UNCHANGED <<archiveDir, jsonl, ledgerDisk, up, ledgerMem, saveChain, pc, msg,
                 dropCount, handled, crashes, startFound, clock>>
  /\ UNCHANGED rvars
  /\ UNCHANGED svars

\* processClaimedMessage, entry: the inflight guard.  pc[f] # "idle" is
\* inflight.has(filePath).
processStart(f) ==
  /\ up
  /\ ~closed
  /\ f \in events
  /\ events' = events \ {f}
  /\ pc' = [pc EXCEPT ![f] = IF @ = "idle" THEN "stat" ELSE @]
  /\ UNCHANGED <<pendingDir, processingDir, archiveDir, jsonl, ledgerDisk, up, ledgerMem,
                 saveChain, msg, dropCount, handled, crashes, startFound, clock>>
  /\ UNCHANGED rvars
  /\ UNCHANGED svars

\* fs.stat + fs.readFile; ENOENT ends the task.  Then the first ledger test:
\* the mailbox watcher calls historyStore.appendMessage unless the key is at
\* least "history"; the restart watcher has no history step.
statRead(f) ==
  /\ up
  /\ pc[f] = "stat"
  /\ IF processingDir[f] = 0
     THEN /\ pc' = [pc EXCEPT ![f] = "idle"]
          /\ UNCHANGED msg
     ELSE /\ msg' = [msg EXCEPT ![f] = processingDir[f]]
          /\ pc' = [pc EXCEPT ![f] =
                      IF IsMail(f) /\ ~isAtLeast(ledgerMem, f, "history")
                      THEN "append" ELSE "callHandler"]
  /\ UNCHANGED <<pendingDir, processingDir, archiveDir, jsonl, ledgerDisk, up, ledgerMem,
                 saveChain, events, dropCount, handled, crashes, startFound, clock>>
  /\ UNCHANGED rvars
  /\ UNCHANGED svars

\* HistoryStore.appendMessage: one more line in messages.jsonl, whatever the file
\* already holds.
appendMessage(log, id) == [log EXCEPT ![id] = @ + 1]

\* The append completes; the continuation calls ledger.mark(key, "history"),
\* which updates the entries and chains a save.
appendDone(f) ==
  /\ up
  /\ pc[f] = "append"
  /\ jsonl' = appendMessage(jsonl, f)
  /\ ledgerMem' = markEntries(ledgerMem, f, "history")
  /\ IF markSaves(ledgerMem, f, "history")
     THEN /\ saveChain' = chainPush(saveChain, ledgerOf(f), f)
          /\ pc' = [pc EXCEPT ![f] = "saveHistory"]
     ELSE /\ saveChain' = saveChain
          /\ pc' = [pc EXCEPT ![f] = "callHandler"]
  /\ UNCHANGED <<pendingDir, processingDir, archiveDir, ledgerDisk, up, events, msg,
                 dropCount, handled, crashes, startFound, clock>>
  /\ UNCHANGED rvars
  /\ UNCHANGED svars

\* Where a task goes on when the save it awaits has been written.
afterSave(position) ==
  CASE position = "saveHistory" -> "callHandler"
    [] position = "saveJobDone" -> "archive"
    [] position = "saveDone" -> "idle"
    [] OTHER -> position

\* The head of the save chain runs: writeJsonFile writes the entries as they are
\* now, and the caller awaiting it continues.
save(l) ==
  /\ up
  /\ saveChain[l] # <<>>
  /\ ledgerDisk' = [f \in Files |-> IF ledgerOf(f) = l THEN ledgerMem[f] ELSE ledgerDisk[f]]
  /\ saveChain' = [saveChain EXCEPT ![l] = Tail(@)]
  /\ pc' = [f \in Files |-> IF f = Head(saveChain[l]) THEN afterSave(pc[f]) ELSE pc[f]]
  /\ UNCHANGED <<pendingDir, processingDir, archiveDir, jsonl, up, ledgerMem, events, msg,
                 dropCount, handled, crashes, startFound, clock>>
  /\ UNCHANGED rvars
  /\ UNCHANGED svars

\* The second ledger test: the handler is invoked unless the key is at least
\* "job_done".
callHandler(f) ==
  /\ up
  /\ pc[f] = "callHandler"
  /\ IF ~isAtLeast(ledgerMem, f, "job_done")
     THEN /\ handled' = handled \cup {<<f, msg[f]>>}
          /\ pc' = [pc EXCEPT ![f] = "handler"]
     ELSE /\ pc' = [pc EXCEPT ![f] = "archive"]
          /\ UNCHANGED handled
  /\ UNCHANGED <<pendingDir, processingDir, archiveDir, jsonl, ledgerDisk, up, ledgerMem,
                 saveChain, events, msg, dropCount, crashes, startFound, clock>>
  /\ UNCHANGED rvars
  /\ UNCHANGED svars

catchBlock_MarksJobDoneMutant(f) ==
  [pc |-> [pc EXCEPT ![f] = "idle"],
   ledgerMem |-> markEntries(ledgerMem, f, "job_done"),
   ledgerDisk |-> markEntries(ledgerMem, f, "job_done")]

\* What catch and finally of processClaimedMessage (processClaimedRequest) leave
\* behind when the handler throws: the error is logged, the inflight entry is
\* released, the ledger is not touched.
catchBlock(f) ==
  [pc |-> [pc EXCEPT ![f] = "idle"], ledgerMem |-> ledgerMem, ledgerDisk |-> ledgerDisk]

\* The handler has returned: ledger.mark(key, "job_done").
jobDone(f) ==
  /\ up
  /\ pc[f] = "handler"
  /\ ledgerMem' = markEntries(ledgerMem, f, "job_done")
  /\ IF markSaves(ledgerMem, f, "job_done")
     THEN /\ saveChain' = chainPush(saveChain, ledgerOf(f), f)
          /\ pc' = [pc EXCEPT ![f] = "saveJobDone"]
     ELSE /\ saveChain' = saveChain
          /\ pc' = [pc EXCEPT ![f] = "archive"]
  /\ UNCHANGED <<pendingDir, processingDir, archiveDir, jsonl, ledgerDisk, up, events, msg,
                 dropCount, handled, crashes, startFound, clock>>

\* A handler that does nothing to the server returns.
handlerReturns(f) ==
  /\ jobDone(f)
  /\ UNCHANGED rvars
  /\ UNCHANGED svars

\* The handler throws: caught and logged, inflight released.
handlerThrows(f) ==
  /\ up
  /\ pc[f] = "handler"
  /\ pc' = catchBlock(f).pc
  /\ ledgerMem' = catchBlock(f).ledgerMem
  /\ ledgerDisk' = catchBlock(f).ledgerDisk
  /\ UNCHANGED <<pendingDir, processingDir, archiveDir, jsonl, up, saveChain, events, msg,
                 dropCount, handled, crashes, startFound, clock>>
  /\ UNCHANGED rvars
  /\ UNCHANGED svars

\* moveProcessingToHistory: rename; on ENOENT the file counts as moved when the
\* archive path holds a file.  Then ledger.mark(key, "done") when moved.
moveProcessingToHistory(f) ==
  /\ up
  /\ pc[f] = "archive"
  /\ LET moved == processingDir[f] # 0 \/ archiveDir[f] # 0 IN
     /\ IF processingDir[f] # 0
        THEN /\ archiveDir' = [archiveDir EXCEPT ![f] = processingDir[f]]
             /\ processingDir' = [processingDir EXCEPT ![f] = 0]
        ELSE UNCHANGED <<archiveDir, processingDir>>
     /\ IF moved /\ markSaves(ledgerMem, f, "done")
        THEN /\ ledgerMem' = markEntries(ledgerMem, f, "done")
             /\ saveChain' = chainPush(saveChain, ledgerOf(f), f)
             /\ pc' = [pc EXCEPT ![f] = "saveDone"]
        ELSE /\ UNCHANGED <<ledgerMem, saveChain>>
             /\ pc' = [pc EXCEPT ![f] = "idle"]
  /\ UNCHANGED <<pendingDir, jsonl, ledgerDisk, up, events, msg, dropCount, handled,
                 crashes, startFound, clock>>
  /\ UNCHANGED rvars
  /\ UNCHANGED svars

\* The process dies: memory is lost, the filesystem stays, the ledger files as
\* `ledgers`.
dies(ledgers) ==
  /\ up
  /\ crashes < MaxCrashes
  /\ up' = FALSE
  /\ crashes' = crashes + 1
  /\ ledgerMem' = [f \in Files |-> NoEntry]
  /\ saveChain' = [l \in Ledgers |-> <<>>]
  /\ events' = {}
  /\ pc' = [f \in Files |-> "idle"]
  /\ msg' = [f \in Files |-> 0]
  /\ ledgerDisk' = ledgers
  /\ UNCHANGED <<pendingDir, processingDir, archiveDir, jsonl, dropCount,
                 handled, startFound, clock>>
  /\ restarting' = FALSE
  /\ closed' = FALSE
  /\ exitCode' = 1
  /\ UNCHANGED <<shuttingDown, children, exits, launcher, spawns>>
  /\ UNCHANGED fvars
  /\ runtimeExit

\* The process dies (or the watcher is closed) at any point between the steps
\* of the watchers.
Crash == dies(ledgerDisk)

\* The process dies inside the writeJsonFile at the head of the save chain of
\* ledger l, after the ledger file was renamed to .bak and before the temporary
\* file is renamed to it: no ledger file is left.
CrashInSave(l) ==
  /\ saveChain[l] # <<>>
  /\ \E f \in Files : ledgerOf(f) = l /\ ledgerDisk[f] # NoEntry
  /\ dies([f \in Files |-> IF ledgerOf(f) = l THEN NoEntry ELSE ledgerDisk[f]])

initialEvents_IgnoreInitialMutant == {}

\* chokidar.watch(..., {ignoreInitial: false}): an add event for every file that
\* is in message_processing/ (processing/) when the watcher starts.
initialEvents == {f \in Files : processingDir[f] # 0}

\* startMessageWatcher / startRestartWatcher: the ledger is loaded and chokidar
\* (ignoreInitial: false) reports every file already in the watched directories.
Start ==
  /\ ~up
  /\ up' = TRUE
  /\ ledgerMem' = load
  /\ events' = initialEvents
  /\ startFound' = [f \in Files |->
                      IF processingDir[f] # 0 THEN ledgerDisk[f].status ELSE "absent"]
  /\ UNCHANGED <<pendingDir, processingDir, archiveDir, jsonl, ledgerDisk, saveChain, pc,
                 msg, dropCount, handled, crashes, clock>>
  /\ exitCode' = NotExited
  /\ UNCHANGED <<restarting, closed, shuttingDown, children, exits, launcher, spawns>>
  /\ UNCHANGED fvars
  /\ UNCHANGED rvars

\* thread.sessions[agent] of a thread without a session of the agent.
NoSession == [threadId |-> 0, initialized |-> FALSE]

\* A turn that is not in ensureSession nor past it.
NoSessionTurn == [pc |-> "idle", threadId |-> "none", session |-> 0]

NoSessionLog == [created |-> 0, inits |-> 0, used |-> {}, turns |-> 0]

\* A state file: the threads it holds and their sessions.
NoState == [threads |-> Threads, sessions |-> [a \in Agents |-> [t \in Threads |-> NoSession]]]

\* The state after the launcher `program` has spawned its children and the
\* server has started on a base directory that is empty but for the state file
\* `state`: "bin" is bin/ai-shogun.js, "script" the launcher of the server
\* package. The part outside the runtimes.
StartedOn(program, state) ==
  /\ threads = state.threads
  /\ sessions = state.sessions
  /\ providerThreads = 0
  /\ sessionTurn = [a \in Agents |-> NoSessionTurn]
  /\ sessionLog = [a \in Agents |-> [t \in Threads |-> NoSessionLog]]
  /\ pendingDir = [f \in Files |-> 0]
  /\ processingDir = [f \in Files |-> 0]
  /\ archiveDir = [f \in Files |-> 0]
  /\ jsonl = [f \in MailFiles |-> 0]
  /\ ledgerDisk = [f \in Files |-> NoEntry]
  /\ up = TRUE
  /\ ledgerMem = [f \in Files |-> NoEntry]
  /\ saveChain = [l \in Ledgers |-> <<>>]
  /\ events = {}
  /\ pc = [f \in Files |-> "idle"]
  /\ msg = [f \in Files |-> 0]
  /\ dropCount = [f \in Files |-> 0]
  /\ handled = {}
  /\ crashes = 0
  /\ startFound = [f \in Files |-> "absent"]
  /\ clock = 0
  /\ restarting = FALSE
  /\ closed = FALSE
  /\ exitCode = NotExited
  /\ shuttingDown = FALSE
  /\ children = IF program = "bin" THEN {"server", "web"} ELSE {"server"}
  /\ exits = {}
  /\ launcher = [program |-> program, state |-> "running", code |-> NotExited,
                 raised |-> "none", got |-> {}]
  /\ spawns = 1
  /\ disk = [file |-> Absent, bak |-> Absent, temp |-> Absent]
  /\ writer = [pc |-> "idle", content |-> Absent]
  /\ loaded = Absent
  /\ saved = Absent
  /\ onMessagePc = [f \in MailFiles |-> "none"]
  /\ stateStore = [updatedAt |-> [t \in Threads |-> 0], lastActiveThread |-> "none"]
  /\ broadcasts = {}

\* The same with the threads of the king and no session yet.
Started(program) == StartedOn(program, NoState)

Booted(program) == Started(program) /\ RInit

\* No message file name is under way.
Boot(program) == Booted(program) /\ messageTitle = NoTitle

\* The server under bin/ai-shogun.js, which starts it and the web front end.
WInit == Boot("bin")

WatcherStep(f) ==
  \/ claimPendingMessage(f)
  \/ processStart(f)
  \/ statRead(f)
  \/ appendDone(f)
  \/ callHandler(f)
  \/ handlerReturns(f)
  \/ handlerThrows(f)
  \/ moveProcessingToHistory(f)

WNext ==
  \/ \E f \in Files : Drop(f)
  \/ \E f \in Files : claimPendingMessage(f)
  \/ \E f \in Files : processStart(f)
  \/ \E f \in Files : statRead(f)
  \/ \E f \in MailFiles : appendDone(f)
  \/ \E l \in Ledgers : save(l)
  \/ \E f \in Files : callHandler(f)
  \/ \E f \in Files : handlerReturns(f)
  \/ \E f \in Files : handlerThrows(f)
  \/ \E f \in Files : moveProcessingToHistory(f)
  \/ Crash
  \/ Start

allvars == <<wvars, rvars>>

\* The two watchers with their ledgers, crashes included.
SpecWatcher == WInit /\ [][WNext]_allvars

\* The two watchers when the process can also die inside a save of a ledger.
KNext ==
  \/ WNext
  \/ \E l \in Ledgers : CrashInSave(l)

SpecWatcherTorn == WInit /\ [][KNext]_allvars

\* The mailbox watcher alone (no restart request is ever written).
MNext ==
  \/ \E f \in MailFiles : Drop(f)
  \/ \E f \in MailFiles : claimPendingMessage(f)
  \/ \E f \in MailFiles : processStart(f)
  \/ \E f \in MailFiles : statRead(f)
  \/ \E f \in MailFiles : appendDone(f)
  \/ save("mail")
  \/ \E f \in MailFiles : callHandler(f)
  \/ \E f \in MailFiles : handlerReturns(f)
  \/ \E f \in MailFiles : handlerThrows(f)
  \/ \E f \in MailFiles : moveProcessingToHistory(f)
  \/ Crash
  \/ Start

\* The mailbox watcher under the scheduling the event loop gives: a delivered
\* event, a pending I/O completion or a handler's end is not postponed for ever,
\* and a stopped process is started again.
SpecWatcherFair ==
  /\ WInit
  /\ [][MNext]_allvars
  /\ \A f \in MailFiles : WF_allvars(WatcherStep(f))
  /\ WF_allvars(save("mail"))
  /\ WF_allvars(Start)


\* ---------------------------------------------------------------- launcher
\* How a child process can end: with an exit code, or killed by a signal (then
\* the 'exit' event has code null).
ExitWays ==
  {[code |-> c, signal |-> "none"] : c \in {0, 1, RESTART_EXIT_CODE}}
    \cup {[code |-> NotExited, signal |-> sig] : sig \in {"SIGTERM", "SIGKILL"}}

\* The child `label` ends; its 'exit' event is queued for the launcher.
childExits(label, way) ==
  /\ launcher.state = "running"
  /\ label \in children
  /\ \A e \in exits : e.label # label
  /\ (label = "server" /\ way.code = RESTART_EXIT_CODE) => spawns < MaxSpawns
  /\ exits' = exits \cup {[label |-> label, code |-> way.code, signal |-> way.signal]}
  /\ UNCHANGED <<pendingDir, processingDir, archiveDir, jsonl, ledgerDisk, up, ledgerMem,
                 saveChain, events, pc, msg, dropCount, handled, crashes, startFound, clock,
                 restarting, closed, exitCode, shuttingDown, children, launcher, spawns>>
  /\ UNCHANGED rvars
  /\ UNCHANGED fvars

\* child.kill(sig) on the children `labels`: those still running end by the signal.
kill(E, labels, sig) ==
  E \cup {[label |-> l, code |-> NotExited, signal |-> sig] :
            l \in {x \in labels : \A e \in E : e.label # x}}

\* `code ?? 0`
orZero(code) == IF code = NotExited THEN 0 ELSE code

\* process.exit(code)
exited(l, code) == [l EXCEPT !.state = "exited", !.code = code]

\* process.kill(process.pid, sig): SIGINT and SIGTERM run the launcher's own
\* handler, which returns at once because shuttingDown is set; any other signal
\* ends the launcher.
raise(l, sig) ==
  IF sig \in {"SIGINT", "SIGTERM"}
  THEN [l EXCEPT !.raised = sig]
  ELSE [l EXCEPT !.raised = sig, !.state = "killed"]

respawns_EvenShuttingDownMutant(e) == e.label = "server" /\ e.code = RESTART_EXIT_CODE

\* The test both launchers make before they spawn the server again.
respawns(e) == e.label = "server" /\ e.code = RESTART_EXIT_CODE /\ ~shuttingDown

\* child.on("exit") of either launcher.
onExit(e) ==
  LET rest == children \ {e.label}
      E == exits \ {e}
  IN /\ launcher.state = "running"
     /\ e \in exits
     /\ IF launcher.program = "script" /\ shuttingDown
        THEN /\ launcher' = exited(launcher, orZero(e.code))
             /\ children' = rest
             /\ exits' = E
             /\ UNCHANGED <<shuttingDown, spawns>>
        ELSE IF respawns(e)
        THEN /\ children' = rest \cup {"server"}
             /\ spawns' = spawns + 1
             /\ exits' = E
             /\ UNCHANGED <<shuttingDown, launcher>>
        ELSE IF shuttingDown
        THEN /\ children' = rest
             /\ exits' = E
             /\ UNCHANGED <<shuttingDown, launcher, spawns>>
        ELSE /\ shuttingDown' = TRUE
             /\ children' = rest
             /\ exits' = kill(E, rest, "SIGTERM")
             /\ launcher' = IF e.signal # "none" THEN raise(launcher, e.signal)
                            ELSE exited(launcher, orZero(e.code))
             /\ UNCHANGED spawns
     /\ UNCHANGED <<pendingDir, processingDir, archiveDir, jsonl, ledgerDisk, up, ledgerMem,
                    saveChain, events, pc, msg, dropCount, handled, crashes, startFound,
                    clock, restarting, closed, exitCode>>
     /\ UNCHANGED rvars
     /\ UNCHANGED fvars

\* SIGINT or SIGTERM reaches the launcher: bin/ai-shogun.js stops its children and
\* exits with 0, the launcher of the server package forwards the signal and
\* exits when the child has.
onSignal(sig) ==
  /\ launcher.state = "running"
  /\ IF shuttingDown
     THEN /\ launcher' = [launcher EXCEPT !.got = @ \cup {sig}]
          /\ UNCHANGED <<shuttingDown, exits>>
     ELSE /\ shuttingDown' = TRUE
          /\ IF launcher.program = "bin"
             THEN /\ exits' = kill(exits, children, "SIGTERM")
                  /\ launcher' = exited([launcher EXCEPT !.got = @ \cup {sig}], 0)
             ELSE /\ exits' = kill(exits, children, sig)
                  /\ launcher' = [launcher EXCEPT !.got = @ \cup {sig}]
  /\ UNCHANGED <<pendingDir, processingDir, archiveDir, jsonl, ledgerDisk, up, ledgerMem,
                 saveChain, events, pc, msg, dropCount, handled, crashes, startFound, clock,
                 restarting, closed, exitCode, children, spawns>>
  /\ UNCHANGED rvars
  /\ UNCHANGED fvars

JNext ==
  \/ \E label \in {"server", "web"}, way \in ExitWays : childExits(label, way)
  \/ \E e \in exits : onExit(e)
  \/ \E sig \in {"SIGINT", "SIGTERM"} : onSignal(sig)

\* Either launcher with its children, whatever ends them.
SpecLauncher == (\E program \in {"bin", "script"} : Boot(program)) /\ [][JNext]_allvars

\* ---------------------------------------------------------------- JSON files
\* The variables the steps on the JSON file leave alone.
others ==
  <<pendingDir, processingDir, archiveDir, jsonl, ledgerDisk, up, ledgerMem, saveChain,
    events, pc, msg, dropCount, handled, crashes, startFound, clock, restarting, closed,
    exitCode, shuttingDown, children, exits, launcher, spawns, uvars, rvars>>

\* The store saves a new version (the save chains admit one writeJsonFile at a
\* time): fs.writeFile on the temporary path has begun.
writeBegin ==
  /\ writer.pc = "idle"
  /\ saved < MaxVersions
  /\ writer' = [pc |-> "writeFile", content |-> saved + 1]
  /\ disk' = [disk EXCEPT !.temp = Partial]
  /\ UNCHANGED <<loaded, saved, messageTitle, others>>

\* fs.writeFile(tempPath, content) completes.
writeTemp ==
  /\ writer.pc = "writeFile"
  /\ writer' = [writer EXCEPT !.pc = "rmBak"]
  /\ disk' = [disk EXCEPT !.temp = writer.content]
  /\ UNCHANGED <<loaded, saved, messageTitle, others>>

\* fs.rm(bakPath, {force: true})
rmBak ==
  /\ writer.pc = "rmBak"
  /\ writer' = [writer EXCEPT !.pc = "toBak"]
  /\ disk' = [disk EXCEPT !.bak = Absent]
  /\ UNCHANGED <<loaded, saved, messageTitle, others>>

\* fs.rename(filePath, bakPath); ENOENT is ignored.
renameToBak ==
  /\ writer.pc = "toBak"
  /\ writer' = [writer EXCEPT !.pc = "toFile"]
  /\ disk' = IF disk.file = Absent THEN disk
             ELSE [disk EXCEPT !.bak = disk.file, !.file = Absent]
  /\ UNCHANGED <<loaded, saved, messageTitle, others>>

\* fs.rename(tempPath, filePath): writeJsonFile returns.
renameToFile ==
  /\ writer.pc = "toFile"
  /\ writer' = [pc |-> "idle", content |-> Absent]
  /\ disk' = [disk EXCEPT !.file = disk.temp, !.temp = Absent]
  /\ saved' = writer.content
  /\ UNCHANGED <<loaded, messageTitle, others>>

\* The process dies, at any step of a save or between saves.
fileCrash ==
  /\ writer.pc # "down"
  /\ writer' = [writer EXCEPT !.pc = "down"]
  /\ UNCHANGED <<disk, loaded, saved, messageTitle, others>>

\* readJsonFile: the content of the file, null when there is none.
readJsonFile == disk.file

\* MessageLedger.load / StateStore.load in the next process: null gives a store
\* without entries, which the later saves start from.
fileLoad ==
  /\ writer.pc = "down"
  /\ loaded' = readJsonFile
  /\ writer' = [pc |-> "idle", content |-> Absent]
  /\ UNCHANGED <<disk, saved, messageTitle, others>>

FNext ==
  \/ writeBegin
  \/ writeTemp
  \/ rmBak
  \/ renameToBak
  \/ renameToFile
  \/ fileCrash
  \/ fileLoad

\* One JSON file, its saves, and crashes at every step of them.
SpecSaveFile == WInit /\ [][FNext]_allvars

\* ---------------------------------------------------------------- one message file name
\* writeMessageFile(threadId, title) at the date `date`, nanoid drawing `unique`.
TitleInit ==
  \E threadId \in ThreadIds, title \in Titles, date \in Dates, unique \in Tokens :
    /\ Booted("bin")
    /\ messageTitle = [NoTitle EXCEPT !.pc = "called", !.threadId = threadId,
                                      !.title = title, !.date = date,
                                      !.unique = unique]

\* The file is written at `${messageTitle}.md`.
writeMessageFile ==
  /\ messageTitle.pc = "called"
  /\ messageTitle' =
       [messageTitle EXCEPT
          !.pc = "written",
          !.stem = buildMessageTitle(messageTitle.threadId, messageTitle.title,
                                     messageTitle.date, messageTitle.unique)]
  /\ UNCHANGED <<disk, writer, loaded, saved, others>>

\* The watcher claims the file: parseTitle(parsed.stem), the stem being the
\* file name without its ".md".
processClaimedMessage ==
  /\ messageTitle.pc = "written"
  /\ messageTitle' = [messageTitle EXCEPT !.pc = "parsed",
                                          !.parsed = parseTitle(messageTitle.stem)]
  /\ UNCHANGED <<disk, writer, loaded, saved, others>>

NNext ==
  \/ writeMessageFile
  \/ processClaimedMessage

\* One call of writeMessageFile and the watcher's reading of the file's name,
\* for every thread id, title, date and token of the bounds.
SpecTitle == TitleInit /\ [][NNext]_allvars

\* ---------------------------------------------------------------- ledger alone
\* One ledger: any caller marks any key with any status (MessageLedger.mark), the
\* chained writes run one after the other, and time passes.
mark(key, status) ==
  /\ Len(saveChain[ledgerOf(key)]) < MaxChain
  /\ ledgerMem' = markEntries(ledgerMem, key, status)
  /\ saveChain' = IF markSaves(ledgerMem, key, status)
                  THEN chainPush(saveChain, ledgerOf(key), "caller") ELSE saveChain
  /\ UNCHANGED <<pendingDir, processingDir, archiveDir, jsonl, ledgerDisk, up, events, pc,
                 msg, dropCount, handled, crashes, startFound, clock>>
  /\ UNCHANGED rvars
  /\ UNCHANGED svars

Tick ==
  /\ clock < MaxClock
  /\ clock' = clock + 1
  /\ UNCHANGED <<pendingDir, processingDir, archiveDir, jsonl, ledgerDisk, up, ledgerMem,
                 saveChain, events, pc, msg, dropCount, handled, crashes, startFound>>
  /\ UNCHANGED rvars
  /\ UNCHANGED svars

LNext ==
  \/ \E key \in MailFiles, status \in LedgerStatuses : mark(key, status)
  \/ save("mail")
  \/ Tick

SpecLedger == WInit /\ [][LNext]_allvars

\* ---------------------------------------------------------------- claims, part 1

\* C1: for every message id, messages.jsonl holds at most one entry with that
\* id, whatever crashes and restarts happen during the process phase.
C1_AtMostOnceHistory == \A f \in MailFiles : jsonl[f] <= 1

\* C2 (as claimed): every file that appears under message_to/ is eventually passed
\* to the handler.
C2_EveryFileHandled ==
  \A f \in MailFiles : \A g \in 1..MaxDrops :
    (dropCount[f] >= g) ~> (<<f, g>> \in handled)

\* C2 (amended): a file whose name no other file is ever written under is
\* eventually passed to the handler, crashes and restarts included.
C2_UniqueNameHandled ==
  \A f \in MailFiles :
    (dropCount[f] >= 1) ~> (<<f, 1>> \in handled \/ dropCount[f] >= 2)

\* C2 witness: a file with a name used once was handled in a run after a crash that
\* found it in message_processing/.
C2_Witness ==
  /\ dropCount["m1"] = 1
  /\ crashes >= 1
  /\ startFound["m1"] # "absent"
  /\ <<"m1", 1>> \in handled

\* C3: the rank recorded for a key never decreases, in memory or in the ledger
\* file, and a mark whose rank is not higher than the current one changes
\* nothing (no entry, no updatedAt, no write).
C3_LedgerMonotone ==
  [][ /\ \A k \in Files :
           /\ statusRank(ledgerMem'[k].status) >= statusRank(ledgerMem[k].status)
           /\ statusRank(ledgerDisk'[k].status) >= statusRank(ledgerDisk[k].status)
      /\ \A k \in Files, s \in LedgerStatuses :
           (mark(k, s) /\ statusRank(s) <= statusRank(ledgerMem[k].status))
             => UNCHANGED <<ledgerMem, ledgerDisk, saveChain>>
    ]_allvars

\* C3 witness: a key was raised to done in memory and on disk, and time has
\* passed since, so a later mark would show in updatedAt.
C3_Witness ==
  /\ ledgerMem["m1"].status = "done"
  /\ ledgerDisk["m1"].status = "done"
  /\ ledgerMem["m2"].status = "job_done"
  /\ clock > ledgerMem["m1"].updatedAt

\* C8: when the handler throws for a claimed file, the ledger is not raised to
\* job_done (a mailbox key stays at history, a restart key has no entry), the file
\* stays in the processing directory and is not archived, and the tasks and
\* pending events of the other files are left as they are.
C8_HandlerThrowLeavesFile ==
  [][ \A f \in Files :
        (pc[f] = "handler" /\ pc'[f] = "idle" /\ up')
          => /\ ~isAtLeast(ledgerMem', f, "job_done")
             /\ ~isAtLeast(ledgerDisk', f, "job_done")
             /\ IsMail(f) => /\ ledgerMem'[f].status = "history"
                             /\ ledgerDisk'[f].status = "history"
             /\ ~IsMail(f) => ledgerMem'[f] = NoEntry /\ ledgerDisk'[f] = NoEntry
             /\ processingDir'[f] # 0
             /\ archiveDir' = archiveDir
             /\ events' = events
             /\ saveChain' = saveChain
             /\ \A g \in Files \ {f} : pc'[g] = pc[g]
    ]_allvars

\* C8 witness: in one run the handler threw for m1 (invoked, task over, key still
\* at history, file still in message_processing/), and m2 was served to the end.
C8_Witness ==
  /\ up /\ crashes = 0
  /\ <<"m1", 1>> \in handled /\ pc["m1"] = "idle"
  /\ ledgerMem["m1"].status = "history" /\ processingDir["m1"] = 1
  /\ ledgerDisk["m2"].status = "done" /\ archiveDir["m2"] = 1

\* C9: a start that finds a mailbox file in message_processing/ with ledger status
\* history skips the history append, archives only after the handler was invoked
\* and returned, marks done with the file archived, and messages.jsonl holds exactly
\* one entry for the message.
C9_RecoveryFromHistory ==
  \A f \in MailFiles :
    (up /\ startFound[f] = "history") =>
      /\ pc[f] # "append"
      /\ pc[f] \in {"archive", "saveJobDone", "saveDone"} =>
           /\ isAtLeast(ledgerMem, f, "job_done")
           /\ \E g \in 1..MaxDrops : <<f, g>> \in handled
      /\ ledgerMem[f].status = "done" => archiveDir[f] # 0 /\ jsonl[f] = 1

\* ---------------------------------------------------------------- agent runtimes: steps
threadOf(m) == sent[m].threadId

\* The messages of queue q that belong to thread t, in queue order, and the rest.
ofThread_EverythingMutant(q, t) == q

ofThread(q, t) == SelectSeq(q, LAMBDA m : threadOf(m) = t)
notOfThread(q, t) == SelectSeq(q, LAMBDA m : threadOf(m) # t)

RECURSIVE toSet(_)
toSet(q) == IF q = <<>> THEN {} ELSE {Head(q)} \cup toSet(Tail(q))

\* The first test of processQueue: it returns when a turn runs or nothing waits.
processQueueRuns_NoBusyTestMutant(b, q) == q # <<>>

processQueueRuns(b, q) == ~b /\ q # <<>>

\* The synchronous part of processQueue, from what the caller left: it takes the
\* head message with the queued messages of its thread and sets busy.
processQueue(q, b, sr, tn, n) ==
  IF processQueueRuns(b, q)
  THEN [queue |-> notOfThread(Tail(q), threadOf(Head(q))),
        busy |-> TRUE,
        stopRequested |-> FALSE,
        turn |-> [IdleTurn EXCEPT !.pc = "session",
                                  !.batch = <<Head(q)>> \o ofThread(Tail(q), threadOf(Head(q)))],
        running |-> n + 1]
  ELSE [queue |-> q, busy |-> b, stopRequested |-> sr, turn |-> tn, running |-> n]

\* The count of turns after the call of processQueue that gave pq from n running
\* turns.
begun(pq, n) ==
  IF pq.running > n THEN [starts EXCEPT ![Head(pq.turn.batch)] = @ + 1] ELSE starts

\* resolveMessageWaiter as the suspended turn sees it: waitForMessage returns
\* `value` (a message id, 0 for null).
wake(tn, value) == IF tn.pc = "waiting" THEN [tn EXCEPT !.pc = "woken", !.waited = value] ELSE tn

\* tryResolveMessageWaiter
tryResolves(a, m) == messageWaiter[a] # "none" /\ messageWaiter[a] = threadOf(m)

\* `agent aborted: ${this.abortReason}`
aborted(reason) == IF reason = "stop" THEN "agent aborted: stop" ELSE "agent aborted: interrupt"

\* The states of a completion promise that is rejected: the messages of the
\* errors it is rejected with.
Errors ==
  {"agent stopped", "agent interrupted: stop", "agent interrupted: interrupt",
   "agent aborted: stop", "agent aborted: interrupt", "provider failed"}

\* rejectCompletionWaiters / resolveCompletionWaiters for a set of message ids:
\* `outcome` is "resolved" or the error.
settle_ResolvesMutant(ids, outcome) ==
  [m \in MsgIds |-> IF m \in ids /\ completion[m] = "pending" THEN "resolved" ELSE completion[m]]

settle(ids, outcome) ==
  [m \in MsgIds |-> IF m \in ids /\ completion[m] = "pending" THEN outcome ELSE completion[m]]

\* The server calls enqueue(message) on the runtime of `a`: the call computes the
\* wait key and awaits waitStore.load.
enqueue(m, a, t) ==
  /\ up
  /\ calls[m].pc = "none"
  /\ \A k \in Msgs : k < m => calls[k].pc # "none"
  /\ sent' = [sent EXCEPT ![m] = [to |-> a, threadId |-> t]]
  /\ calls' = [calls EXCEPT ![m] = [pc |-> "load", record |-> NoWait]]
  /\ UNCHANGED <<completion, queue, busy, stopRequested, abortReason, abortController,
                 messageWaiter, timers, waits, turn, running, starts, received,
                 written, resumes, exitWaits>>
  /\ UNCHANGED wvars

\* The read of the wait record completes.
enqueueLoad(m) ==
  /\ up
  /\ calls[m].pc = "load"
  /\ calls' = [calls EXCEPT ![m] = [pc |-> "loaded", record |-> waits[sent[m].to][threadOf(m)]]]
  /\ UNCHANGED <<sent, completion, queue, busy, stopRequested, abortReason, abortController,
                 messageWaiter, timers, waits, turn, running, starts, received,
                 written, resumes, exitWaits>>
  /\ UNCHANGED wvars

\* The rest of enqueue from the point where the message is not stored in a wait
\* record: hand it to the suspended waitForMessage, or push it and call
\* processQueue.
enqueueTail(m) ==
  LET a == sent[m].to
      pq == processQueue(Append(queue[a], m), busy[a], stopRequested[a], turn[a], running[a])
  IN IF tryResolves(a, m)
     THEN /\ messageWaiter' = [messageWaiter EXCEPT ![a] = "none"]
          /\ turn' = [turn EXCEPT ![a] = wake(@, m)]
          /\ completion' = [completion EXCEPT ![m] = "resolved"]
          /\ UNCHANGED <<queue, busy, stopRequested, running, starts>>
     ELSE /\ completion' = [completion EXCEPT ![m] = "pending"]
          /\ queue' = [queue EXCEPT ![a] = pq.queue]
          /\ busy' = [busy EXCEPT ![a] = pq.busy]
          /\ stopRequested' = [stopRequested EXCEPT ![a] = pq.stopRequested]
          /\ turn' = [turn EXCEPT ![a] = pq.turn]
          /\ running' = [running EXCEPT ![a] = pq.running]
          /\ starts' = begun(pq, running[a])
          /\ UNCHANGED messageWaiter

\* The continuation of enqueue after the load: a pending wait record of another
\* message sends the call to the upsert, anything else to the queue.
enqueueLoaded(m) ==
  /\ up
  /\ calls[m].pc = "loaded"
  /\ IF calls[m].record.status = "pending" /\ calls[m].record.messageId # m
     THEN /\ calls' = [calls EXCEPT ![m].pc = "upsert"]
          /\ UNCHANGED <<completion, queue, busy, stopRequested, messageWaiter, turn, running, starts>>
     ELSE /\ calls' = [calls EXCEPT ![m] = [pc |-> "done", record |-> NoWait]]
          /\ enqueueTail(m)
  /\ UNCHANGED <<sent, abortReason, abortController, timers, waits, received, written, resumes, exitWaits>>
  /\ UNCHANGED wvars

\* The upsert of the record with status received is written and enqueue goes on:
\* it resolves the suspended waitForMessage when there is one and returns.
enqueueUpsert(m) ==
  /\ up
  /\ calls[m].pc = "upsert"
  /\ waits' = [waits EXCEPT ![sent[m].to][threadOf(m)] =
                 [calls[m].record EXCEPT !.status = "received", !.receivedMessage = m]]
  /\ calls' = [calls EXCEPT ![m] = [pc |-> "done", record |-> NoWait]]
  /\ completion' = [completion EXCEPT ![m] = "resolved"]
  /\ IF tryResolves(sent[m].to, m)
     THEN /\ messageWaiter' = [messageWaiter EXCEPT ![sent[m].to] = "none"]
          /\ turn' = [turn EXCEPT ![sent[m].to] = wake(@, m)]
     ELSE UNCHANGED <<messageWaiter, turn>>
  /\ UNCHANGED <<sent, queue, busy, stopRequested, abortReason, abortController, timers,
                 running, starts, received, written, resumes, exitWaits>>
  /\ UNCHANGED wvars

\* formatMessageBatchInput: the content of the batch, in batch order.
formatMessageBatchInput(messages) == [kind |-> "message", ids |-> messages, results |-> <<>>]

\* One entry of `results`; `message` is the id of the message a wait returned.
toolResult(tool, status, to, denied, message) ==
  [tool |-> tool, status |-> status, to |-> to, denied |-> denied, message |-> message,
   limitReached |-> FALSE]

\* The result of a waitForMessage request past the wait limit of the turn:
\* `{status: "timeout", timeoutMs: 0, remainingWaits: 0, limitReached: true}`.
limitResult ==
  [toolResult("waitForMessage", "timeout", NoList, NoList, 0) EXCEPT !.limitReached = TRUE]

\* What such a request does to the loop limit.
limitBump_NeverMutant(i, maxLoops) == maxLoops

limitBump(i, maxLoops) == IF i + 1 >= maxLoops THEN maxLoops + 1 ELSE maxLoops

\* `TOOL_RESULT waitForMessage: {status: "message", message} | {status: "timeout"}`
waitInput(waited) ==
  [kind |-> "waitForMessage",
   ids |-> IF waited # 0 THEN <<waited>> ELSE <<>>,
   results |-> <<toolResult("waitForMessage", IF waited # 0 THEN "message" ELSE "timeout",
                            NoList, NoList, waited)>>]

\* The ids in `ids` the provider of `a` has not got before, in order.
firstReceipts(a, ids) == SelectSeq(ids, LAMBDA m : m \notin toSet(received[a]))

\* The head of the loop of runWithTools for the locals tn: the next provider call
\* is issued with tn.input unless the loop limit is reached or stop was requested.
loopHead_IgnoresStopMutant(a, tn) ==
  IF tn.i < tn.maxLoops
  THEN [turn |-> [tn EXCEPT !.pc = "provider"],
        received |-> received[a] \o firstReceipts(a, tn.input.ids)]
  ELSE [turn |-> [tn EXCEPT !.pc = "post"], received |-> received[a]]

loopHead(a, tn) ==
  IF tn.i < tn.maxLoops /\ ~stopRequested[a]
  THEN [turn |-> [tn EXCEPT !.pc = "provider"],
        received |-> received[a] \o firstReceipts(a, tn.input.ids)]
  ELSE [turn |-> [tn EXCEPT !.pc = "post"], received |-> received[a]]

\* The turn of `a` goes on as lh says, nothing else of the turns changes.
goOn(a, lh) ==
  /\ turn' = [turn EXCEPT ![a] = lh.turn]
  /\ received' = [received EXCEPT ![a] = lh.received]

\* The end of processQueue's finally block: busy is released, the completion
\* promises of the batch are rejected with the error the turn failed with or
\* resolved when there is none ("null"), and processQueue is called again unless
\* stop was requested.
finishTurn(a, processingError) ==
  LET pq == IF stopRequested[a]
            THEN [queue |-> queue[a], busy |-> FALSE, stopRequested |-> FALSE,
                  turn |-> IdleTurn, running |-> running[a] - 1]
            ELSE processQueue(queue[a], FALSE, FALSE, IdleTurn, running[a] - 1)
  IN /\ abortController' = [abortController EXCEPT ![a] = "null"]
     /\ abortReason' = [abortReason EXCEPT ![a] = "null"]
     /\ completion' = settle(toSet(turn[a].batch),
                             IF processingError # "null" THEN processingError ELSE "resolved")
     /\ queue' = [queue EXCEPT ![a] = pq.queue]
     /\ busy' = [busy EXCEPT ![a] = pq.busy]
     /\ stopRequested' = [stopRequested EXCEPT ![a] = pq.stopRequested]
     /\ turn' = [turn EXCEPT ![a] = pq.turn]
     /\ running' = [running EXCEPT ![a] = pq.running]
     /\ starts' = begun(pq, running[a] - 1)

\* ensureSession returns: the abort controller is created and runWithTools starts
\* by loading the wait record of the thread.
ensureSession(a) ==
  /\ up
  /\ turn[a].pc = "session"
  /\ abortController' = [abortController EXCEPT ![a] = "live"]
  /\ turn' = [turn EXCEPT ![a] = [@ EXCEPT !.pc = "loadWait",
                                           !.input = formatMessageBatchInput(turn[a].batch),
                                           !.waitRemaining = waitLimit,
                                           !.maxLoops = maxLoopsInitial]]
  /\ UNCHANGED <<sent, calls, completion, queue, busy, stopRequested, abortReason,
                 messageWaiter, timers, waits, running, starts, received,
                 written, resumes, exitWaits>>
  /\ UNCHANGED wvars

\* ensureSession throws (the provider cannot create or initialise the session):
\* the catch and finally blocks run without an await.
ensureSessionThrows(a) ==
  /\ up
  /\ turn[a].pc = "session"
  /\ finishTurn(a, "provider failed")
  /\ UNCHANGED <<sent, calls, messageWaiter, timers, waits, received,
                 written, resumes, exitWaits>>
  /\ UNCHANGED wvars

\* A read of the wait record by the turn completes (existingWait in runWithTools,
\* waitRecord in waitForMessage, record in the finally block).
turnLoad(a) ==
  /\ up
  /\ turn[a].pc \in {"loadWait", "wfmLoad", "finLoad"}
  /\ turn' = [turn EXCEPT ![a] = [@ EXCEPT
                !.record = waits[a][threadOf(Head(turn[a].batch))],
                !.pc = CASE @ = "loadWait" -> "existingWait"
                         [] @ = "wfmLoad" -> "wfmLoaded"
                         [] OTHER -> "finLoaded"]]
  /\ UNCHANGED <<sent, calls, completion, queue, busy, stopRequested, abortReason,
                 abortController, messageWaiter, timers, waits, running, starts, received, written, resumes, exitWaits>>
  /\ UNCHANGED wvars

\* runWithTools after the load of existingWait: a record of the primary message
\* makes the first input the result of the wait it recorded (waiting again when
\* it is still pending); otherwise the first input is the batch.
existingWait(a) ==
  LET tn == turn[a]
      rec == tn.record
      resumable == rec.status \in {"pending", "received", "timeout"}
                   /\ rec.messageId = Head(tn.batch)
  IN /\ up
     /\ tn.pc = "existingWait"
     /\ IF resumable /\ rec.status = "pending"
        THEN /\ turn' = [turn EXCEPT ![a] = [tn EXCEPT !.pc = "wfmLoad", !.resumed = TRUE,
                                                         !.timeoutMs = rec.timeoutMs,
                                                         !.record = NoWait]]
             /\ UNCHANGED received
        ELSE IF resumable
        THEN goOn(a, loopHead(a, [tn EXCEPT !.record = NoWait, !.input =
                 waitInput(IF rec.status = "received" THEN rec.receivedMessage ELSE 0)]))
        ELSE goOn(a, loopHead(a, [tn EXCEPT !.record = NoWait]))
     /\ UNCHANGED <<sent, calls, completion, queue, busy, stopRequested, abortReason,
                    abortController, messageWaiter, timers, waits, running, starts, written, resumes, exitWaits>>
     /\ UNCHANGED wvars

\* popQueuedMessage: the first queued message of the thread, 0 when there is none.
popQueuedMessage(q, t) == IF ofThread(q, t) = <<>> THEN 0 ELSE Head(ofThread(q, t))

\* The queue without its first occurrence of m.
RECURSIVE spliceOut(_, _)
spliceOut(q, m) ==
  IF q = <<>> THEN <<>>
  ELSE IF Head(q) = m THEN Tail(q) ELSE <<Head(q)>> \o spliceOut(Tail(q), m)

\* waitForMessage after its load: a received record returns its message, a timed
\* out record returns null, a queued message of the thread is taken from the
\* queue; otherwise the call registers itself as messageWaiter and suspends.
waitForMessage(a) ==
  LET tn == turn[a]
      rec == tn.record
      t == threadOf(Head(tn.batch))
      queued == popQueuedMessage(queue[a], t)
  IN /\ up
     /\ tn.pc = "wfmLoaded"
     /\ IF rec.status = "received" /\ rec.receivedMessage # 0
        THEN /\ turn' = [turn EXCEPT ![a] = [tn EXCEPT !.pc = "woken", !.waited = rec.receivedMessage,
                                                         !.record = NoWait]]
             /\ UNCHANGED <<queue, messageWaiter>>
        ELSE IF rec.status = "timeout"
        THEN /\ turn' = [turn EXCEPT ![a] = [tn EXCEPT !.pc = "woken", !.waited = 0,
                                                         !.record = NoWait]]
             /\ UNCHANGED <<queue, messageWaiter>>
        ELSE IF queued # 0
        THEN /\ turn' = [turn EXCEPT ![a] = [tn EXCEPT !.pc = "woken", !.waited = queued,
                                                         !.record = NoWait]]
             /\ queue' = [queue EXCEPT ![a] = spliceOut(@, queued)]
             /\ UNCHANGED messageWaiter
        ELSE /\ turn' = [turn EXCEPT ![a] = [tn EXCEPT !.pc = "waiting", !.record = NoWait]]
             /\ messageWaiter' = [messageWaiter EXCEPT ![a] = t]
             /\ UNCHANGED queue
     /\ UNCHANGED <<sent, calls, completion, busy, stopRequested, abortReason, abortController,
                    timers, waits, running, starts, received, written, resumes, exitWaits>>
     /\ UNCHANGED wvars

\* The timer of the suspended waitForMessage fires: the waiter is dropped, an
\* asynchronous block starts that will mark the record timed out, and the wait
\* returns null.
timerFires(a) ==
  /\ up
  /\ messageWaiter[a] # "none"
  /\ turn[a].timeoutMs > 0
  /\ messageWaiter' = [messageWaiter EXCEPT ![a] = "none"]
  /\ timers' = timers \cup {[agent |-> a, threadId |-> messageWaiter[a], pc |-> "load", record |-> NoWait]}
  /\ turn' = [turn EXCEPT ![a] = wake(@, 0)]
  /\ UNCHANGED <<sent, calls, completion, queue, busy, stopRequested, abortReason,
                 abortController, waits, running, starts, received, written,
                 resumes, exitWaits>>
  /\ UNCHANGED wvars

\* The block of a fired timer loads the record: it goes on to the upsert only
\* when the record is still pending.
timerLoad(tm) ==
  /\ up
  /\ tm \in timers
  /\ tm.pc = "load"
  /\ timers' = (timers \ {tm}) \cup
       (IF waits[tm.agent][tm.threadId].status = "pending"
        THEN {[tm EXCEPT !.pc = "upsert", !.record = waits[tm.agent][tm.threadId]]}
        ELSE {})
  /\ UNCHANGED <<sent, calls, completion, queue, busy, stopRequested, abortReason,
                 abortController, messageWaiter, waits, turn, running, starts, received, written, resumes, exitWaits>>
  /\ UNCHANGED wvars

\* The block of a fired timer writes the record it loaded with status timeout.
timerUpsert(tm) ==
  /\ up
  /\ tm \in timers
  /\ tm.pc = "upsert"
  /\ timers' = timers \ {tm}
  /\ waits' = [waits EXCEPT ![tm.agent][tm.threadId] = [tm.record EXCEPT !.status = "timeout"]]
  /\ UNCHANGED <<sent, calls, completion, queue, busy, stopRequested, abortReason,
                 abortController, messageWaiter, turn, running, starts, received,
                 written, resumes, exitWaits>>
  /\ UNCHANGED wvars

\* `TOOL_RESULT ...`: the next input, from the number of tool requests of the
\* output and the results of those that ran.
RECURSIVE messagesOf(_)
messagesOf(results) ==
  IF results = <<>> THEN <<>>
  ELSE (IF Head(results).message # 0 THEN <<Head(results).message>> ELSE <<>>)
       \o messagesOf(Tail(results))

formatResults(count, results) ==
  LET batch == [kind |-> "batch", ids |-> messagesOf(results), results |-> results]
  IN IF count = 1 /\ results # <<>>
     THEN CASE results[1].tool = "getAshigaruStatus" /\ results[1].status = "ok" ->
                 [kind |-> "getAshigaruStatus", ids |-> <<>>, results |-> results]
            [] results[1].tool = "waitForMessage" ->
                 [kind |-> "waitForMessage", ids |-> messagesOf(results),
                  results |-> <<[results[1] EXCEPT !.status =
                                   IF @ = "message" THEN "message" ELSE "timeout"]>>]
            [] results[1].tool \in {"interruptAgent", "sendMessage"} ->
                 [kind |-> results[1].tool, ids |-> <<>>, results |-> results]
            [] OTHER -> batch
     ELSE batch

\* The tool loop after one request: the next request, or the next loop pass with
\* the formatted results as input.
afterTool(a, tn) ==
  IF tn.tools # <<>>
  THEN [turn |-> tn, received |-> received[a]]
  ELSE loopHead(a, [tn EXCEPT !.input = formatResults(tn.count, tn.results), !.i = @ + 1,
                              !.count = 0, !.results = <<>>, !.waitEncountered = FALSE])

\* AgentRuntime.interrupt (and the part stop shares with it) on the runtimes in
\* T: the queue is dropped and its completion promises rejected with `error`,
\* the waiter is resolved with null and a running provider call is aborted.
interrupted(T, reason, error) ==
  /\ queue' = [b \in Agents |-> IF b \in T THEN <<>> ELSE queue[b]]
  /\ completion' = settle(UNION {toSet(queue[b]) : b \in T}, error)
  /\ messageWaiter' = [b \in Agents |-> IF b \in T THEN "none" ELSE messageWaiter[b]]
  /\ abortReason' = [b \in Agents |->
       IF b \in T /\ abortController[b] # "null" THEN reason ELSE abortReason[b]]
  /\ abortController' = [b \in Agents |->
       IF b \in T /\ abortController[b] # "null" THEN "aborted" ELSE abortController[b]]

\* stop() on every runtime: what it does to the runtimes.
stopRuntimes ==
  /\ stopRequested' = [b \in Agents |-> TRUE]
  /\ interrupted(Agents, "stop", "agent stopped")
  /\ turn' = [b \in Agents |-> wake(turn[b], 0)]
  /\ UNCHANGED <<sent, calls, busy, timers, waits, running, starts, received,
                 written, resumes, exitWaits>>

\* AgentManager.stopAll: stop() on every runtime.
stopAll ==
  /\ up
  /\ stopRuntimes
  /\ UNCHANGED wvars

\* index.ts, onRestart: the restart watcher's handler returns. The first call
\* sets `restarting`, stops the fleet and closes the watchers, the transport and
\* the server; a later call returns at once. Then processClaimedRequest marks
\* the key job_done.
onRestart(f) ==
  /\ f \in RestartFiles
  /\ jobDone(f)
  /\ IF restarting
     THEN UNCHANGED <<restarting, closed, rvars>>
     ELSE /\ restarting' = TRUE
          /\ closed' = TRUE
          /\ stopRuntimes
  /\ UNCHANGED <<exitCode, shuttingDown, children, exits, launcher, spawns>>
  /\ UNCHANGED fvars

\* index.ts, onRestartComplete: process.exit(RESTART_EXIT_CODE). The handlers
\* object of index.ts holds it, but no code of restart/watcher.ts calls it.
onRestartComplete ==
  /\ up
  /\ restarting
  /\ up' = FALSE
  /\ exitCode' = RESTART_EXIT_CODE
  /\ closed' = FALSE
  /\ restarting' = FALSE
  /\ ledgerMem' = [f \in Files |-> NoEntry]
  /\ saveChain' = [l \in Ledgers |-> <<>>]
  /\ events' = {}
  /\ pc' = [f \in Files |-> "idle"]
  /\ msg' = [f \in Files |-> 0]
  /\ UNCHANGED <<pendingDir, processingDir, archiveDir, jsonl, ledgerDisk, dropCount,
                 handled, crashes, startFound, clock>>
  /\ UNCHANGED <<shuttingDown, children, exits, launcher, spawns>>
  /\ UNCHANGED fvars
  /\ runtimeExit

\* What a sendMessage or interruptAgent request may do: the recipients it acts on.
sendAllowed_EveryoneMutant(a, to) == to

sendAllowed(a, to) == {x \in to : x \in allowedRecipients(a)}

interruptAllowed_NoSubordinateTestMutant(a, to) ==
  {x \in to \cap Agents : x \in allowedRecipients(a)}

interruptAllowed(a, to) ==
  {x \in to : x \in allowedRecipients(a) /\ isDirectSubordinate(roleOf(a), x)}

\* `if (waitEncountered) { ...; continue; }`: the request is skipped.
skips_NeverMutant(tn) == FALSE

skips(tn) == tn.waitEncountered

\* One request of the tool loop that does not wait: skipped after a wait,
\* getAshigaruStatus, a refused or exhausted waitForMessage, interruptAgent,
\* sendMessage.
toolStep(a) ==
  LET tn == turn[a]
      req == Head(tn.tools)
      role == roleOf(a)
      rest == [tn EXCEPT !.tools = Tail(@)]
      push(r) == [rest EXCEPT !.results = Append(@, r)]
      ia == interruptAllowed(a, req.to)
      sa == sendAllowed(a, req.to)
      T == IF ~skips(tn) /\ req.name = "interruptAgent" THEN ia ELSE {}
      next ==
        CASE skips(tn) -> rest
          [] req.name = "getAshigaruStatus" ->
               push(toolResult("getAshigaruStatus", IF role = "karou" THEN "ok" ELSE "ignored",
                               NoList, NoList, 0))
          [] req.name = "waitForMessage" /\ role \notin {"karou", "shogun"} ->
               push(toolResult("waitForMessage", "ignored", NoList, NoList, 0))
          [] req.name = "waitForMessage" ->
               [push(limitResult) EXCEPT !.maxLoops = limitBump(tn.i, @),
                                         !.waitEncountered = TRUE]
          [] req.name = "interruptAgent" ->
               IF ia = {}
               THEN push(toolResult("interruptAgent", "denied", req.to \ ia, NoList, 0))
               ELSE push(toolResult("interruptAgent",
                                    IF req.body THEN "interrupted" ELSE "stopped",
                                    ia, req.to \ ia, 0))
          [] OTHER ->
               IF sa = {}
               THEN push(toolResult("sendMessage", "denied", req.to \ sa, NoList, 0))
               ELSE IF ~req.body
               THEN push(toolResult("sendMessage", "error", sa, NoList, 0))
               ELSE push(toolResult("sendMessage", "sent", sa, req.to \ sa, 0))
      files ==
        CASE skips(tn) -> {}
          [] req.name = "interruptAgent" /\ req.body ->
               {[from |-> a, to |-> x, kind |-> "interruptAgent"] : x \in ia}
          [] req.name = "sendMessage" /\ req.body ->
               {[from |-> a, to |-> x, kind |-> "sendMessage"] : x \in sa}
          [] OTHER -> {}
      lh == afterTool(a, next)
  IN /\ up
     /\ tn.pc = "tools"
     /\ tn.waitEncountered \/ req.name # "waitForMessage"
          \/ roleOf(a) \notin {"karou", "shogun"} \/ tn.waitRemaining <= 0
     /\ written' = written \cup files
     /\ interrupted(T, IF req.body THEN "interrupt" ELSE "stop",
                     IF req.body THEN "agent interrupted: interrupt"
                     ELSE "agent interrupted: stop")
     /\ turn' = [b \in Agents |-> IF b = a THEN lh.turn ELSE IF b \in T THEN wake(turn[b], 0) ELSE turn[b]]
     /\ received' = [received EXCEPT ![a] = lh.received]
     /\ UNCHANGED <<sent, calls, busy, stopRequested, timers, waits, running, starts, resumes, exitWaits>>
     /\ UNCHANGED wvars

\* A waitForMessage request that may wait: one wait is used up and the pending
\* record is sent to the wait store.
waitStart(a) ==
  /\ up
  /\ turn[a].pc = "tools"
  /\ ~turn[a].waitEncountered
  /\ Head(turn[a].tools).name = "waitForMessage"
  /\ roleOf(a) \in {"karou", "shogun"}
  /\ turn[a].waitRemaining > 0
  /\ turn' = [turn EXCEPT ![a] = [@ EXCEPT !.pc = "waitUpsert", !.waitRemaining = @ - 1,
                                           !.timeoutMs = Head(turn[a].tools).timeoutMs,
                                           !.tools = Tail(@)]]
  /\ UNCHANGED <<sent, calls, completion, queue, busy, stopRequested, abortReason,
                 abortController, messageWaiter, timers, waits, running, starts, received, written, resumes, exitWaits>>
  /\ UNCHANGED wvars

\* The pending record is written and waitForMessage is called: it loads the record.
waitUpsert(a) ==
  /\ up
  /\ turn[a].pc = "waitUpsert"
  /\ waits' = [waits EXCEPT ![a][threadOf(Head(turn[a].batch))] =
                 [status |-> "pending", messageId |-> Head(turn[a].batch), receivedMessage |-> 0,
                  timeoutMs |-> turn[a].timeoutMs]]
  /\ turn' = [turn EXCEPT ![a] = [@ EXCEPT !.pc = "wfmLoad"]]
  /\ UNCHANGED <<sent, calls, completion, queue, busy, stopRequested, abortReason,
                 abortController, messageWaiter, timers, running, starts, received,
                 written, resumes, exitWaits>>
  /\ UNCHANGED wvars

\* waitForMessage has returned. In the tool loop the record is written as received
\* or timeout, the loop limit grows by one and the rest of the requests is
\* skipped; in the resumption of a recorded wait the result becomes the first
\* input.
afterWait(a) ==
  LET tn == turn[a]
      waited == tn.waited
      inLoop == [tn EXCEPT !.pc = "tools", !.maxLoops = @ + 1, !.waitEncountered = TRUE,
                            !.waited = 0,
                            !.results = Append(@, toolResult("waitForMessage",
                                          IF waited # 0 THEN "message" ELSE "timeout",
                                          NoList, NoList, waited))]
  IN /\ up
     /\ tn.pc = "woken"
     /\ IF tn.resumed
        THEN /\ goOn(a, loopHead(a, [tn EXCEPT !.input = waitInput(waited), !.resumed = FALSE,
                                                !.waited = 0]))
             /\ UNCHANGED waits
        ELSE /\ goOn(a, afterTool(a, inLoop))
             /\ waits' = [waits EXCEPT ![a][threadOf(Head(tn.batch))] =
                            [status |-> IF waited # 0 THEN "received" ELSE "timeout",
                             messageId |-> Head(tn.batch), receivedMessage |-> waited,
                             timeoutMs |-> tn.timeoutMs]]
     /\ UNCHANGED <<sent, calls, completion, queue, busy, stopRequested, abortReason,
                    abortController, messageWaiter, timers, running, starts, written,
                    resumes, exitWaits>>
     /\ UNCHANGED wvars

\* What the provider may answer. A request is a tool name with the recipients it
\* names and whether it carries a body that resolves; an output is final text
\* ("text"), nothing ("") or lines of tool requests ("tool").
request(name, to, body) ==
  [name |-> name, to |-> to, body |-> body,
   timeoutMs |-> IF name = "waitForMessage" THEN defaultWaitTimeoutMs ELSE 0]
ToSets ==
  {{"karou"}, {"shogun"}, {"ashigaru1"}, {"ashigaru2"}, {"king"}, {"karou", "shogun"},
   {"ashigaru1", "ashigaru2"}, {"king", "karou"}}
waitRequest == request("waitForMessage", NoList, FALSE)
\* `TOOL:waitForMessage timeoutMs=0`
waitNoTimer == [waitRequest EXCEPT !.timeoutMs = 0]
statusRequest == request("getAshigaruStatus", NoList, FALSE)
Requests ==
  {waitRequest, statusRequest}
    \cup {request(name, to, body) : name \in {"sendMessage", "interruptAgent"},
                                    to \in ToSets, body \in BOOLEAN}
Outputs ==
  {[kind |-> "text", tools |-> <<>>], [kind |-> "", tools |-> <<>>]}
    \cup {[kind |-> "tool", tools |-> <<r>>] : r \in Requests}
    \cup {[kind |-> "tool", tools |-> <<waitRequest, request("sendMessage", {"karou"}, TRUE)>>],
          [kind |-> "tool", tools |-> <<statusRequest, waitRequest>>],
          [kind |-> "tool", tools |-> <<request("sendMessage", {"shogun"}, TRUE),
                                        request("sendMessage", {"king", "karou"}, TRUE)>>]}
asksWait(out) == \E k \in 1..Len(out.tools) : out.tools[k].name = "waitForMessage"

\* The provider call returns `out`: a final text ends the loop, tool requests
\* start the tool loop.
providerAnswers(a, out) ==
  /\ up
  /\ turn[a].pc = "provider"
  /\ turn' = [turn EXCEPT ![a] =
       [@ EXCEPT !.output = out.kind,
                 !.input = NoInput,
                 !.pc = IF out.tools = <<>> THEN "post" ELSE "tools",
                 !.tools = out.tools,
                 !.count = Len(out.tools),
                 !.results = <<>>,
                 !.waitEncountered = FALSE]]
  /\ UNCHANGED <<sent, calls, completion, queue, busy, stopRequested, abortReason,
                 abortController, messageWaiter, timers, waits, running, starts, received,
                 written, resumes, exitWaits>>
  /\ UNCHANGED wvars

\* The same where the provider asks for at most MaxWaits waits in a turn.
providerReturns(a, out) ==
  /\ asksWait(out) => waitLimit - turn[a].waitRemaining < MaxWaits
  /\ providerAnswers(a, out)

\* The provider call throws: with an abort reason set the loop ends, otherwise the
\* turn fails.
providerThrows(a) ==
  /\ up
  /\ turn[a].pc = "provider"
  /\ IF abortReason[a] # "null"
     THEN /\ turn' = [turn EXCEPT ![a] = [@ EXCEPT !.pc = "post", !.input = NoInput]]
          /\ UNCHANGED <<completion, queue, busy, stopRequested, abortReason, abortController,
                         running, starts>>
     ELSE finishTurn(a, "provider failed")
  /\ UNCHANGED <<sent, calls, messageWaiter, timers, waits, received,
                 written, resumes, exitWaits>>
  /\ UNCHANGED wvars

\* String.trim on the outputs of the providers' menus.
trim(output) ==
  CASE output = " text " -> "text"
    [] output = " " -> ""
    [] OTHER -> output

\* isToolOutput: some line of the output starts with `TOOL:` or `TOOL `. "tool"
\* stands for the outputs whose lines parseToolRequests turns into requests,
\* "TOOL:sendMessage" is a marker line that names no recipient and gives none.
isToolOutput(output) == output \in {"tool", "TOOL:sendMessage"}

\* The title of the auto-reply to a batch whose head message is `head`:
\* `auto_reply: ${message.title}`, with ` (+n)` appended for n further messages.
autoReplyTitle(batch) ==
  [prefix |-> "auto_reply: ", title |-> Head(batch),
   more |-> IF Len(batch) > 1 THEN Len(batch) - 1 ELSE 0]

autoReply_NoTrimMutant(a, tn) ==
  LET fallbackBody == tn.output
      to == getAutoReplyRecipient(roleOf(a))
  IN IF fallbackBody # "" /\ ~isToolOutput(fallbackBody) /\ to \in allowedRecipients(a)
     THEN {[from |-> a, to |-> to, kind |-> "auto_reply",
            title |-> autoReplyTitle(tn.batch), body |-> fallbackBody]}
     ELSE {}

autoReply(a, tn) ==
  LET fallbackBody == trim(tn.output)
      to == getAutoReplyRecipient(roleOf(a))
  IN IF fallbackBody # "" /\ ~isToolOutput(fallbackBody) /\ to \in allowedRecipients(a)
     THEN {[from |-> a, to |-> to, kind |-> "auto_reply",
            title |-> autoReplyTitle(tn.batch), body |-> fallbackBody]}
     ELSE {}

\* processQueue after runWithTools: an aborted turn fails; a final output that is
\* not empty and no tool output goes to the auto-reply recipient when that one is
\* allowed; then the finally block loads the wait record.
afterRun(a) ==
  /\ up
  /\ turn[a].pc = "post"
  /\ IF abortReason[a] # "null"
     THEN /\ finishTurn(a, aborted(abortReason[a]))
          /\ UNCHANGED written
     ELSE /\ written' = written \cup autoReply(a, turn[a])
          /\ turn' = [turn EXCEPT ![a] = [@ EXCEPT !.pc = "finLoad"]]
          /\ UNCHANGED <<completion, queue, busy, stopRequested, abortReason,
                         abortController, running, starts>>
  /\ UNCHANGED <<sent, calls, messageWaiter, timers, waits, received,
                 resumes, exitWaits>>
  /\ UNCHANGED wvars

\* The finally block after its load: the record of the turn's own message is
\* removed, then the turn ends.
finallyLoaded(a) ==
  /\ up
  /\ turn[a].pc = "finLoaded"
  /\ IF turn[a].record.status # "none" /\ turn[a].record.messageId = Head(turn[a].batch)
     THEN /\ turn' = [turn EXCEPT ![a] = [@ EXCEPT !.pc = "finRemove", !.record = NoWait]]
          /\ UNCHANGED <<completion, queue, busy, stopRequested, abortReason, abortController,
                         running, starts>>
     ELSE finishTurn(a, "null")
  /\ UNCHANGED <<sent, calls, messageWaiter, timers, waits, received,
                 written, resumes, exitWaits>>
  /\ UNCHANGED wvars

finallyRemove(a) ==
  /\ up
  /\ turn[a].pc = "finRemove"
  /\ waits' = [waits EXCEPT ![a][threadOf(Head(turn[a].batch))] = NoWait]
  /\ finishTurn(a, "null")
  /\ UNCHANGED <<sent, calls, messageWaiter, timers, received, written,
                 resumes, exitWaits>>
  /\ UNCHANGED wvars

\* The steps of the runtimes other than the calls from outside, the provider's
\* answers and the wait timers.
TurnStep ==
  \/ \E m \in MsgIds : enqueueLoad(m)
  \/ \E m \in MsgIds : enqueueLoaded(m)
  \/ \E a \in Agents : ensureSession(a)
  \/ \E a \in Agents : turnLoad(a)
  \/ \E a \in Agents : existingWait(a)
  \/ \E a \in Agents : waitForMessage(a)
  \/ \E a \in Agents : toolStep(a)
  \/ \E a \in Agents : waitStart(a)
  \/ \E a \in Agents : waitUpsert(a)
  \/ \E a \in Agents : afterWait(a)
  \/ \E a \in Agents : afterRun(a)
  \/ \E a \in Agents : finallyLoaded(a)
  \/ \E a \in Agents : finallyRemove(a)

\* The timers of the waits and the blocks they start.
TimerStep ==
  \/ \E a \in Agents : timerFires(a)
  \/ \E tm \in timers : timerLoad(tm)
  \/ \E tm \in timers : timerUpsert(tm)

RuntimeStep == TurnStep \/ TimerStep

\* resumePendingWaits after waitStore.list: the records of this agent with a
\* status to resume, as the wait store held them.
resumeList(a) ==
  /\ up
  /\ crashes >= 1
  /\ resumes[a].pc = "none"
  /\ resumes' = [resumes EXCEPT ![a] =
       [pc |-> "loop",
        records |-> {waits[a][t].messageId : t \in {x \in Threads :
                        waits[a][x].status \in {"pending", "received", "timeout"}}}]]
  /\ UNCHANGED <<sent, calls, completion, queue, busy, stopRequested, abortReason,
                 abortController, messageWaiter, timers, waits, turn, running, starts,
                 received, written, exitWaits>>
  /\ UNCHANGED wvars

\* One turn of the loop of resumePendingWaits, after the history of the thread
\* is read: the recorded message is enqueued again unless the queue holds it.
resumeRecord(a, m) ==
  /\ up
  /\ resumes[a].pc = "loop"
  /\ m \in resumes[a].records
  /\ resumes' = [resumes EXCEPT ![a].records = @ \ {m}]
  /\ IF m \in toSet(queue[a])
     THEN UNCHANGED calls
     ELSE calls' = [calls EXCEPT ![m] = [pc |-> "load", record |-> NoWait]]
  /\ UNCHANGED <<sent, completion, queue, busy, stopRequested, abortReason,
                 abortController, messageWaiter, timers, waits, turn, running, starts,
                 received, written, exitWaits>>
  /\ UNCHANGED wvars

\* The runtimes that get messages and what their providers answer when the
\* interleaving of messages, turns, waits, interrupts and stops is explored.
Served == {"karou", "ashigaru1"}
ServedOutputs ==
  {[kind |-> "", tools |-> <<>>],
   [kind |-> "tool", tools |-> <<waitRequest>>],
   [kind |-> "tool", tools |-> <<request("interruptAgent", {"ashigaru1"}, FALSE)>>]}

\* The runtimes of one process that is never restarted.
RNext ==
  \/ \E m \in Msgs, a \in Served, t \in Threads : enqueue(m, a, t)
  \/ \E m \in Msgs : enqueueUpsert(m)
  \/ \E a \in Agents : ensureSessionThrows(a)
  \/ stopAll
  \/ \E a \in Agents, out \in ServedOutputs : providerReturns(a, out)
  \/ \E a \in Agents : providerThrows(a)
  \/ RuntimeStep

SpecRuntime == WInit /\ [][RNext]_allvars

\* One message to any runtime, and every answer of the provider's menu.
TNext ==
  \/ \E a \in Agents : enqueue(1, a, "t1")
  \/ \E a \in Agents, out \in Outputs : providerReturns(a, out)
  \/ RuntimeStep

SpecTools == WInit /\ [][TNext]_allvars

\* A process that may exit and be restarted while karou serves one thread: the
\* waits are requested without a timer and the startup code may call
\* resumePendingWaits.
ResumeOutputs ==
  {[kind |-> "", tools |-> <<>>],
   [kind |-> "tool", tools |-> <<waitNoTimer>>],
   [kind |-> "tool", tools |-> <<statusRequest>>]}

XNext ==
  \/ \E m \in Msgs : enqueue(m, "karou", "t1")
  \/ \E m \in Msgs : enqueueUpsert(m)
  \/ \E out \in ResumeOutputs : providerReturns("karou", out)
  \/ TurnStep
  \/ Crash
  \/ Start
  \/ resumeList("karou")
  \/ \E m \in Msgs : resumeRecord("karou", m)

SpecResume == WInit /\ [][XNext]_allvars

\* Every step the event loop, the file system or the provider owes is taken in
\* the end; nothing obliges the server to send a message, the process to exit
\* or the startup code to call resumePendingWaits.
SpecResumeFair ==
  /\ SpecResume
  /\ \A m \in Msgs : WF_allvars(enqueueLoad(m) \/ enqueueLoaded(m) \/ enqueueUpsert(m))
  /\ \A m \in Msgs : WF_allvars(resumeRecord("karou", m))
  /\ WF_allvars(\E out \in ResumeOutputs : providerReturns("karou", out))
  /\ WF_allvars(TurnStep)
  /\ WF_allvars(Start)

\* Karou serves one thread in a process that keeps running; its waits have the
\* default timer.
WaitOutputs ==
  {[kind |-> "", tools |-> <<>>],
   [kind |-> "tool", tools |-> <<waitRequest>>],
   [kind |-> "tool", tools |-> <<statusRequest>>]}

SNext ==
  \/ \E m \in Msgs : enqueue(m, "karou", "t1")
  \/ \E m \in Msgs : enqueueUpsert(m)
  \/ \E out \in WaitOutputs : providerReturns("karou", out)
  \/ RuntimeStep

SpecWait == WInit /\ [][SNext]_allvars

\* The event loop, the file system, the timers and the provider take every step
\* they owe; nothing obliges the server to send a message.
SpecWaitFair ==
  /\ SpecWait
  /\ \A m \in Msgs : WF_allvars(enqueueLoad(m) \/ enqueueLoaded(m) \/ enqueueUpsert(m))
  /\ WF_allvars(\E out \in WaitOutputs : providerReturns("karou", out))
  /\ WF_allvars(RuntimeStep)

\* Two runtimes serve one thread each while the operator may stop the fleet; a
\* wait may be requested with the default timer or with none.
StopOutputs ==
  {[kind |-> "", tools |-> <<>>],
   [kind |-> "tool", tools |-> <<waitRequest>>],
   [kind |-> "tool", tools |-> <<waitNoTimer>>],
   [kind |-> "tool", tools |-> <<statusRequest>>]}

\* A provider that honours the abort signal returns no answer once the signal is
\* aborted: its call throws.
honoured(a) == abortController[a] # "aborted"

PNext ==
  \/ \E m \in Msgs, a \in Served : enqueue(m, a, "t1")
  \/ \E m \in Msgs : enqueueUpsert(m)
  \/ stopAll
  \/ \E a \in Agents, out \in StopOutputs : honoured(a) /\ providerReturns(a, out)
  \/ \E a \in Agents : providerThrows(a)
  \/ RuntimeStep

SpecStop == WInit /\ [][PNext]_allvars

\* Every step that is owed is taken: reads and writes complete, timers fire, a
\* provider call ends by returning or by throwing.
SpecStopFair ==
  /\ SpecStop
  /\ \A m \in Msgs : WF_allvars(enqueueLoad(m) \/ enqueueLoaded(m) \/ enqueueUpsert(m))
  /\ \A a \in Served :
       WF_allvars((\E out \in StopOutputs : honoured(a) /\ providerReturns(a, out))
                    \/ providerThrows(a))
  /\ WF_allvars(RuntimeStep)

\* Turns that end with a final output: three messages to the runtime of one of
\* the three roles, so that two can queue behind a running turn and form a batch;
\* the provider answers with plain, padded, blank, empty or marker-only text or
\* asks for the status; stopAll cancels turns.
ReplyServed == {"shogun", "karou", "ashigaru1"}
ReplyOutputs ==
  {[kind |-> k, tools |-> <<>>] : k \in {"text", " text ", " ", "", "TOOL:sendMessage"}}
    \cup {[kind |-> "tool", tools |-> <<statusRequest>>]}

ANext ==
  \/ \E m \in MsgIds, a \in ReplyServed :
       /\ \A k \in MsgIds : sent[k] # NoMsg => sent[k].to = a
       /\ enqueue(m, a, "t1")
  \/ \E m \in MsgIds : enqueueLoad(m)
  \/ \E m \in MsgIds : enqueueLoaded(m)
  \/ \E a \in Agents : ensureSession(a)
  \/ \E a \in Agents : turnLoad(a)
  \/ \E a \in Agents : existingWait(a)
  \/ \E a \in Agents, out \in ReplyOutputs : providerReturns(a, out)
  \/ \E a \in Agents : providerThrows(a)
  \/ \E a \in Agents : toolStep(a)
  \/ \E a \in Agents : afterRun(a)
  \/ \E a \in Agents : finallyLoaded(a)
  \/ stopAll

SpecReply == WInit /\ [][ANext]_allvars

\* The server with its restart watcher once it runs: request files are dropped,
\* the handler is that of index.ts, and karou gets one message unless the server
\* is restarting (onMessage skips it then).
ONext ==
  \/ \E f \in RestartFiles : Drop(f)
  \/ \E f \in RestartFiles : claimPendingMessage(f)
  \/ \E f \in RestartFiles : processStart(f)
  \/ \E f \in RestartFiles : statRead(f)
  \/ \E f \in RestartFiles : callHandler(f)
  \/ \E f \in RestartFiles : onRestart(f)
  \/ \E f \in RestartFiles : moveProcessingToHistory(f)
  \/ save("restart")
  \/ ~restarting /\ enqueue(1, "karou", "t1")
  \/ enqueueLoad(1)
  \/ enqueueLoaded(1)
  \/ ensureSession("karou")
  \/ turnLoad("karou")
  \/ existingWait("karou")
  \/ providerReturns("karou", [kind |-> "text", tools |-> <<>>])
  \/ providerThrows("karou")
  \/ afterRun("karou")
  \/ finallyLoaded("karou")

SpecRestart == WInit /\ [][ONext]_allvars

\* The same under the scheduling of the event loop: no event, I/O completion or
\* handler's end is postponed for ever.
SpecRestartFair ==
  /\ WInit
  /\ [][ONext]_allvars
  /\ \A f \in RestartFiles :
       WF_allvars(claimPendingMessage(f) \/ processStart(f) \/ statRead(f) \/ callHandler(f)
                    \/ onRestart(f) \/ moveProcessingToHistory(f))
  /\ WF_allvars(save("restart"))

\* The phases of a turn in which it awaits the session, the provider's answer or
\* a message.
cancellable(a) == busy[a] => turn[a].pc \in {"session", "provider", "waiting"}

\* Two runtimes serve one thread each; karou may interrupt ashigaru1, and the
\* operator may stop the fleet while every running turn sets up its session,
\* calls its provider or waits.
CancelOutputs ==
  {[kind |-> "", tools |-> <<>>],
   [kind |-> "tool", tools |-> <<waitRequest>>],
   [kind |-> "tool", tools |-> <<request("interruptAgent", {"ashigaru1"}, FALSE)>>]}

CNext ==
  \/ \E m \in Msgs, a \in Served : enqueue(m, a, "t1")
  \/ \E m \in Msgs : enqueueUpsert(m)
  \/ (\A a \in Agents : cancellable(a)) /\ stopAll
  \/ \E a \in Agents, out \in CancelOutputs : honoured(a) /\ providerReturns(a, out)
  \/ \E a \in Agents : providerThrows(a)
  \/ RuntimeStep

SpecCancel == WInit /\ [][CNext]_allvars

\* Shogun interrupts karou with a body while karou serves message 1 of the same
\* thread: the tool writes the interrupt message, which the server enqueues as
\* message 3. Shogun asks for the interrupt once, when the abort controller of
\* karou's turn exists, and karou's provider may ask for a wait.
interruptKarou == request("interruptAgent", {"karou"}, TRUE)
interruptMessage == [from |-> "shogun", to |-> "karou", kind |-> "interruptAgent"]
KarouOutputs ==
  {[kind |-> "", tools |-> <<>>],
   [kind |-> "tool", tools |-> <<waitRequest>>],
   [kind |-> "tool", tools |-> <<statusRequest, waitRequest>>]}

INext ==
  \/ enqueue(1, "karou", "t1")
  \/ enqueue(2, "shogun", "t1")
  \/ interruptMessage \in written /\ enqueue(3, "karou", "t1")
  \/ \E m \in MsgIds : enqueueUpsert(m)
  \/ /\ written = {} /\ abortController["karou"] = "live"
     /\ providerReturns("shogun", [kind |-> "tool", tools |-> <<interruptKarou>>])
  \/ providerReturns("shogun", [kind |-> "", tools |-> <<>>])
  \/ \E out \in KarouOutputs : honoured("karou") /\ providerReturns("karou", out)
  \/ \E a \in Agents : providerThrows(a)
  \/ RuntimeStep

SpecInterrupt == WInit /\ [][INext]_allvars

\* Reads and writes complete, timers fire, a provider call ends by returning or
\* by throwing, and every step of a turn is taken; nothing obliges the server to
\* send a message.
SpecInterruptFair ==
  /\ SpecInterrupt
  /\ \A m \in MsgIds : WF_allvars(enqueueLoad(m) \/ enqueueLoaded(m) \/ enqueueUpsert(m))
  /\ WF_allvars(providerReturns("shogun", [kind |-> "", tools |-> <<>>]) \/ providerThrows("shogun"))
  /\ WF_allvars((\E out \in KarouOutputs : honoured("karou") /\ providerReturns("karou", out))
                  \/ providerThrows("karou"))
  /\ WF_allvars(RuntimeStep)

\* Shogun, karou and an ashigaru may each serve a message of the one thread, and
\* the first answer of a provider may be an interruptAgent request that names one
\* of the sets of recipients, with a body or without; a provider call fails
\* only when it is aborted.
InterruptServed == {"shogun", "karou", "ashigaru1"}
InterruptToSets ==
  {{"karou"}, {"ashigaru1", "ashigaru2"}, {"king", "karou"}, {"karou", "shogun"}}
InterruptOutputs ==
  {[kind |-> "tool", tools |-> <<request("interruptAgent", to, body)>>] :
     to \in InterruptToSets, body \in BOOLEAN}

UNext ==
  \/ \E m \in MsgIds, a \in InterruptServed :
       /\ \A k \in MsgIds : sent[k] # NoMsg => sent[k].to # a
       /\ enqueue(m, a, "t1")
  \/ \E m \in MsgIds : enqueueLoad(m)
  \/ \E m \in MsgIds : enqueueLoaded(m)
  \/ \E a \in Agents : ensureSession(a)
  \/ \E a \in Agents : turnLoad(a)
  \/ \E a \in Agents : existingWait(a)
  \/ \E a \in Agents, out \in InterruptOutputs :
       turn[a].i = 0 /\ honoured(a) /\ providerReturns(a, out)
  \/ \E a \in Agents : honoured(a) /\ providerReturns(a, [kind |-> "", tools |-> <<>>])
  \/ \E a \in Agents : ~honoured(a) /\ providerThrows(a)
  \/ \E a \in Agents : toolStep(a)
  \/ \E a \in Agents : afterRun(a)
  \/ \E a \in Agents : finallyLoaded(a)

SpecInterruptTool == WInit /\ [][UNext]_allvars

\* Karou after stop() hit a turn during which messages 1 and 2 were enqueued and
\* which has ended: both are queued, in the order of their calls, and no turn
\* runs (the finally block of processQueue does not go on after a stop).
QueuedInit ==
  /\ Started("bin")
  /\ messageTitle = NoTitle
  /\ \E t \in Threads, u \in Threads :
       sent = [m \in MsgIds |-> CASE m = 1 -> [to |-> "karou", threadId |-> t]
                                  [] m = 2 -> [to |-> "karou", threadId |-> u]
                                  [] OTHER -> NoMsg]
  /\ calls = [m \in MsgIds |-> [pc |-> IF m \in {1, 2} THEN "done" ELSE "none", record |-> NoWait]]
  /\ completion = [m \in MsgIds |-> IF m \in {1, 2} THEN "pending" ELSE "none"]
  /\ queue = [a \in Agents |-> IF a = "karou" THEN <<1, 2>> ELSE <<>>]
  /\ busy = [a \in Agents |-> FALSE]
  /\ stopRequested = [a \in Agents |-> FALSE]
  /\ abortReason = [a \in Agents |-> "null"]
  /\ abortController = [a \in Agents |-> "null"]
  /\ messageWaiter = [a \in Agents |-> "none"]
  /\ timers = {}
  /\ waits = [a \in Agents |-> [t \in Threads |-> NoWait]]
  /\ turn = [a \in Agents |-> IdleTurn]
  /\ running = [a \in Agents |-> 0]
  /\ received = [a \in Agents |-> <<>>]
  /\ written = {}
  /\ resumes = [a \in Agents |-> NoResume]
  /\ starts = [m \in MsgIds |-> 0]
  /\ exitWaits = [a \in Agents |-> [t \in Threads |-> NoWait]]

\* A third message of either thread is enqueued, which starts the turns; the
\* provider answers with text or asks for the status.
QNext ==
  \/ \E t \in Threads : enqueue(3, "karou", t)
  \/ enqueueLoad(3)
  \/ enqueueLoaded(3)
  \/ ensureSession("karou")
  \/ ensureSessionThrows("karou")
  \/ turnLoad("karou")
  \/ existingWait("karou")
  \/ \E out \in {[kind |-> "text", tools |-> <<>>], [kind |-> "tool", tools |-> <<statusRequest>>]} :
       providerReturns("karou", out)
  \/ providerThrows("karou")
  \/ toolStep("karou")
  \/ afterRun("karou")
  \/ finallyLoaded("karou")

SpecQueued == QueuedInit /\ [][QNext]_allvars

\* Karou gets three messages of either thread, so that two can be queued behind
\* a running turn when it calls waitForMessage; its provider answers with text
\* or asks for a wait or for the status.
PopOutputs ==
  {[kind |-> "", tools |-> <<>>],
   [kind |-> "tool", tools |-> <<waitRequest>>],
   [kind |-> "tool", tools |-> <<statusRequest>>]}

GNext ==
  \/ \E m \in MsgIds, t \in Threads : enqueue(m, "karou", t)
  \/ \E m \in MsgIds : enqueueUpsert(m)
  \/ \E out \in PopOutputs : providerReturns("karou", out)
  \/ RuntimeStep

SpecPop == WInit /\ [][GNext]_allvars

\* Karou gets one message of each thread, so that no message arrives for the
\* thread of a suspended turn; nothing stops or interrupts it. A wait is asked
\* for with the default timeout or with `timeoutMs=0`.
TimeoutOutputs ==
  {[kind |-> "", tools |-> <<>>],
   [kind |-> "tool", tools |-> <<waitRequest>>],
   [kind |-> "tool", tools |-> <<waitNoTimer>>],
   [kind |-> "tool", tools |-> <<statusRequest>>]}

ENext ==
  \/ enqueue(1, "karou", "t1")
  \/ enqueue(2, "karou", "t2")
  \/ \E out \in TimeoutOutputs : providerReturns("karou", out)
  \/ RuntimeStep

SpecTimeout == WInit /\ [][ENext]_allvars

\* Reads and writes complete, timers that are set fire, the provider answers and
\* every step of a turn is taken.
SpecTimeoutFair ==
  /\ SpecTimeout
  /\ \A m \in Msgs : WF_allvars(enqueueLoad(m) \/ enqueueLoaded(m))
  /\ WF_allvars(\E out \in TimeoutOutputs : providerReturns("karou", out))
  /\ WF_allvars(RuntimeStep)

\* Karou serves one message and its provider may ask for a wait in every
\* answer, alone or followed by a sendMessage or an interruptAgent line; no
\* message arrives, so that every wait ends by its timer.
LimitOutputs ==
  {[kind |-> "", tools |-> <<>>],
   [kind |-> "tool", tools |-> <<waitRequest>>],
   [kind |-> "tool", tools |-> <<waitRequest, request("sendMessage", {"shogun"}, TRUE)>>],
   [kind |-> "tool", tools |-> <<waitRequest, request("interruptAgent", {"ashigaru1"}, TRUE)>>]}

HNext ==
  \/ enqueue(1, "karou", "t1")
  \/ \E out \in LimitOutputs : turn["karou"].i < MaxPasses /\ providerAnswers("karou", out)
  \/ RuntimeStep

SpecWaitLimit == WInit /\ [][HNext]_allvars

\* ---------------------------------------------------------------- the server
\* The mailbox watcher with the handler index.ts gives it, the runtimes behind
\* AgentManager.enqueue and the restart watcher.

\* The variables of the watchers proper, of the restart and the launcher, and of
\* the JSON file and the file name.
kvars ==
  <<pendingDir, processingDir, archiveDir, jsonl, ledgerDisk, up, ledgerMem, saveChain,
    events, pc, msg, dropCount, handled, crashes, startFound, clock>>

lvars == <<restarting, closed, exitCode, shuttingDown, children, exits, launcher, spawns>>

jvars == <<disk, writer, loaded, saved, messageTitle, yvars>>

\* message.id is the stem of the file.
messageOf(f) == CASE f = "m1" -> 1 [] f = "m2" -> 2 [] OTHER -> 3

\* A producer (writeMessageFile of a runtime, the king-message route) renames a
\* file for `to` with thread t in its stem into the mailbox; every stem holds a
\* fresh token, so no name is used twice.
writeMessage(f, to, t) ==
  /\ dropCount[f] = 0
  /\ \A g \in MailFiles : messageOf(g) < messageOf(f) => dropCount[g] # 0
  /\ rename(f)
  /\ sent' = [sent EXCEPT ![messageOf(f)] = [to |-> to, threadId |-> t]]
  /\ UNCHANGED <<calls, completion, queue, busy, stopRequested, abortReason, abortController,
                 messageWaiter, timers, waits, turn, running, received, written, resumes,
                 starts, exitWaits>>
  /\ UNCHANGED svars

\* A restart request is written, once under its name.
writeRequest(f) ==
  /\ f \in RestartFiles
  /\ dropCount[f] = 0
  /\ rename(f)
  /\ UNCHANGED rvars
  /\ UNCHANGED svars

\* onMessage, to its first await: a message that comes while the server is
\* restarting is skipped (the handler returns and the watcher marks the key
\* job_done); otherwise the thread's updatedAt and the last active thread are
\* set and stateStore.save() is awaited.
onMessage(f) ==
  LET t == threadOf(messageOf(f))
  IN /\ up
     /\ IsMail(f)
     /\ pc[f] = "handler"
     /\ onMessagePc[f] = "none"
     /\ IF restarting
        THEN /\ jobDone(f)
             /\ UNCHANGED uvars
        ELSE /\ onMessagePc' = [onMessagePc EXCEPT ![f] = "save"]
             /\ stateStore' = [updatedAt |-> [stateStore.updatedAt EXCEPT ![t] = @ + 1],
                               lastActiveThread |-> t]
             /\ UNCHANGED broadcasts
             /\ UNCHANGED kvars
     /\ UNCHANGED <<rvars, lvars, jvars>>

\* broadcast(wss, {type: "message", message})
broadcast_NothingMutant(m) == broadcasts

broadcast(m) == broadcasts \cup {m}

\* AgentManager.enqueue: this.runtimes.get(to)
hasRuntime(to) == to \in Agents

\* onMessage after the save: the message event is broadcast; a message to king
\* ends there, any other is given to AgentManager.enqueue, which drops it when
\* it has no runtime for the recipient and otherwise returns the promise of the
\* runtime's enqueue, which the handler awaits.
onMessageSaved(f) ==
  LET m == messageOf(f)
  IN /\ up
     /\ pc[f] = "handler"
     /\ onMessagePc[f] = "save"
     /\ broadcasts' = broadcast(m)
     /\ UNCHANGED stateStore
     /\ IF sent[m].to = "king" \/ ~hasRuntime(sent[m].to)
        THEN /\ jobDone(f)
             /\ onMessagePc' = [onMessagePc EXCEPT ![f] = "none"]
             /\ UNCHANGED calls
        ELSE /\ onMessagePc' = [onMessagePc EXCEPT ![f] = "enqueue"]
             /\ calls' = [calls EXCEPT ![m] = [pc |-> "load", record |-> NoWait]]
             /\ UNCHANGED kvars
     /\ UNCHANGED <<sent, completion, queue, busy, stopRequested, abortReason, abortController,
                    messageWaiter, timers, waits, turn, running, received, written, resumes,
                    starts, exitWaits>>
     /\ UNCHANGED <<lvars, jvars>>

\* The promise of enqueue is resolved: onMessage returns.
onMessageReturns(f) ==
  /\ onMessagePc[f] = "enqueue"
  /\ completion[messageOf(f)] = "resolved"
  /\ jobDone(f)
  /\ onMessagePc' = [onMessagePc EXCEPT ![f] = "none"]
  /\ UNCHANGED <<stateStore, broadcasts, rvars, lvars, jvars>>

\* error.message.includes("agent stopped") || ...includes("agent aborted: stop")
isRestartStop(error) == error \in {"agent stopped", "agent aborted: stop"}

\* The promise of enqueue is rejected: while the server is restarting a stop is
\* swallowed and onMessage returns; any other error is thrown on to the
\* watcher, which logs it.
onMessageCatch(f) ==
  LET error == completion[messageOf(f)]
  IN /\ up
     /\ pc[f] = "handler"
     /\ onMessagePc[f] = "enqueue"
     /\ error \in Errors
     /\ IF restarting /\ isRestartStop(error)
        THEN jobDone(f)
        ELSE /\ pc' = catchBlock(f).pc
             /\ ledgerMem' = catchBlock(f).ledgerMem
             /\ ledgerDisk' = catchBlock(f).ledgerDisk
             /\ UNCHANGED <<pendingDir, processingDir, archiveDir, jsonl, up, saveChain, events,
                            msg, dropCount, handled, crashes, startFound, clock>>
     /\ onMessagePc' = [onMessagePc EXCEPT ![f] = "none"]
     /\ UNCHANGED <<stateStore, broadcasts, rvars, lvars, jvars>>

\* What the providers answer here: a final text, nothing, or a failure.
ServerOutputs == {[kind |-> "text", tools |-> <<>>], [kind |-> "", tools |-> <<>>]}

\* Whom the mailbox files are for.
Addressees == {"karou", "king"}

\* Two mailbox files, each for karou or for king, and one restart request.
VNext ==
  \/ \E f \in {"m1", "m2"}, to \in Addressees : writeMessage(f, to, "t1")
  \/ writeRequest("r1")
  \/ \E f \in Files : claimPendingMessage(f)
  \/ \E f \in Files : processStart(f)
  \/ \E f \in Files : statRead(f)
  \/ \E f \in MailFiles : appendDone(f)
  \/ \E l \in Ledgers : save(l)
  \/ \E f \in Files : callHandler(f)
  \/ \E f \in MailFiles : onMessage(f)
  \/ \E f \in MailFiles : onMessageSaved(f)
  \/ \E f \in MailFiles : onMessageReturns(f)
  \/ \E f \in MailFiles : onMessageCatch(f)
  \/ onRestart("r1")
  \/ \E f \in Files : moveProcessingToHistory(f)
  \/ \E m \in MsgIds : enqueueLoad(m)
  \/ \E m \in MsgIds : enqueueLoaded(m)
  \/ ensureSession("karou")
  \/ ensureSessionThrows("karou")
  \/ turnLoad("karou")
  \/ existingWait("karou")
  \/ \E out \in ServerOutputs : providerReturns("karou", out)
  \/ providerThrows("karou")
  \/ afterRun("karou")
  \/ finallyLoaded("karou")

SpecServer == WInit /\ [][VNext]_allvars

\* Three mailbox files for karou and no restart: two messages can queue behind a
\* running turn and form a batch.
BNext ==
  \/ \E f \in MailFiles : writeMessage(f, "karou", "t1")
  \/ \E f \in MailFiles : claimPendingMessage(f)
  \/ \E f \in MailFiles : processStart(f)
  \/ \E f \in MailFiles : statRead(f)
  \/ \E f \in MailFiles : appendDone(f)
  \/ save("mail")
  \/ \E f \in MailFiles : callHandler(f)
  \/ \E f \in MailFiles : onMessage(f)
  \/ \E f \in MailFiles : onMessageSaved(f)
  \/ \E f \in MailFiles : onMessageReturns(f)
  \/ \E f \in MailFiles : onMessageCatch(f)
  \/ \E f \in MailFiles : moveProcessingToHistory(f)
  \/ \E m \in MsgIds : enqueueLoad(m)
  \/ \E m \in MsgIds : enqueueLoaded(m)
  \/ ensureSession("karou")
  \/ ensureSessionThrows("karou")
  \/ turnLoad("karou")
  \/ existingWait("karou")
  \/ \E out \in ServerOutputs : providerReturns("karou", out)
  \/ providerThrows("karou")
  \/ afterRun("karou")
  \/ finallyLoaded("karou")

SpecServerBatch == WInit /\ [][BNext]_allvars

\* ---------------------------------------------------------------- claims, part 2
\* Where the provider of `a` first got message m (0 when it has not).
receiptOf(a, m) ==
  IF m \in toSet(received[a]) THEN CHOOSE k \in 1..Len(received[a]) : received[a][k] = m ELSE 0

\* C4: when enqueue(m1) is called before enqueue(m2) on one runtime and both
\* messages are of one thread, the provider does not get m2 in an input before
\* it gets m1 (message ids are given in the order of the enqueue calls).
C4_FifoPerThread ==
  \A m1 \in Msgs, m2 \in Msgs :
    (/\ m1 < m2
     /\ sent[m1] # NoMsg
     /\ sent[m1] = sent[m2]
     /\ receiptOf(sent[m1].to, m1) # 0
     /\ receiptOf(sent[m1].to, m2) # 0)
      => receiptOf(sent[m1].to, m1) < receiptOf(sent[m1].to, m2)

\* C5: no runtime has more than one turn executing (a turn runs from the moment
\* processQueue takes the head message to the release of busy, and busy is set
\* exactly while it runs).
C5_OneTurnPerRuntime ==
  \A a \in Agents :
    /\ running[a] <= 1
    /\ busy[a] <=> running[a] = 1
    /\ busy[a] <=> turn[a].pc # "idle"

\* C5 witness: the turns of two runtimes overlap, both in their provider call.
C5_Witness ==
  /\ running["karou"] = 1
  /\ running["ashigaru1"] = 1
  /\ turn["karou"].pc = "provider"
  /\ turn["ashigaru1"].pc = "provider"

\* The allowed-recipient sets as the specification words them.
statedRecipients(a) ==
  CASE a = "shogun" -> {"king", "karou"}
    [] a = "karou" -> {"shogun", "ashigaru1", "ashigaru2"}
    [] a = "ashigaru1" -> {"karou", "ashigaru2"}
    [] OTHER -> {"karou", "ashigaru1"}

\* C6: every mailbox file a runtime writes, for sendMessage, for the message of
\* interruptAgent or as auto-reply, goes to a recipient of the writer's allowed
\* set: king and karou for shogun, shogun and all ashigaru for karou, karou and
\* the other ashigaru for an ashigaru.
C6_WritesOnlyToAllowed == \A f \in written : f.to \in statedRecipients(f.from)

\* C6 witness: one runtime has written a file of each of the three kinds.
C6_Witness ==
  \E a \in Agents :
    \A kind \in {"sendMessage", "interruptAgent", "auto_reply"} :
      \E f \in written : f.from = a /\ f.kind = kind

\* A sendMessage request is about to be handled by the tool loop of `a`.
sending(a) ==
  /\ turn[a].pc = "tools"
  /\ ~turn[a].waitEncountered
  /\ Head(turn[a].tools).name = "sendMessage"

Last(q) == q[Len(q)]

\* C7 (as claimed): a sendMessage request that names only recipients outside the
\* allowed set writes no file, does not fail the turn, and the next provider
\* input is a sendMessage result with status denied listing them; a request
\* that mixes allowed and denied recipients writes files for the allowed ones
\* only and its result reports the denied ones.
C7_DeniedReported ==
  [][ \A a \in Agents :
        (sending(a) /\ turn'[a] # turn[a]) =>
          LET to == Head(turn[a].tools).to
              allowed == to \cap statedRecipients(a)
              denied == to \ statedRecipients(a)
              last == Tail(turn[a].tools) = <<>>
              result == IF last THEN Last(turn'[a].input.results) ELSE Last(turn'[a].results)
          IN /\ allowed = {} =>
                  /\ written' = written
                  /\ last => turn'[a].pc = "provider"
                  /\ ~last => turn'[a].pc = "tools"
                  /\ result.tool = "sendMessage"
                  /\ result.status = "denied"
                  /\ result.to = denied
             /\ (allowed # {} /\ denied # {}) =>
                  /\ written' \ written \subseteq
                       {[from |-> a, to |-> x, kind |-> "sendMessage"] : x \in allowed}
                  /\ result.tool = "sendMessage"
                  /\ result.denied = denied
    ]_allvars

\* C7 (amended): the denied-only request writes no file, leaves the turn running
\* and records a sendMessage result with status denied listing the recipients,
\* which is the input of the next provider call when the turn makes one (it
\* makes none when the loop limit is reached or stop was requested); the mixed
\* request whose body resolves writes one file per allowed recipient and its
\* result lists the denied ones; the mixed request whose body does not resolve
\* writes nothing and its result has status error and no list of denied
\* recipients.
C7_DeniedReportedWhenBodyResolves ==
  [][ \A a \in Agents :
        (sending(a) /\ turn'[a] # turn[a]) =>
          LET req == Head(turn[a].tools)
              allowed == req.to \cap statedRecipients(a)
              denied == req.to \ statedRecipients(a)
              last == Tail(turn[a].tools) = <<>>
              result == IF last THEN Last(turn'[a].input.results) ELSE Last(turn'[a].results)
              calls2 == turn[a].i + 1 < turn[a].maxLoops /\ ~stopRequested[a]
          IN /\ result.tool = "sendMessage"
             /\ turn'[a].pc = IF ~last THEN "tools" ELSE IF calls2 THEN "provider" ELSE "post"
             /\ (last /\ turn[a].count = 1) => turn'[a].input.kind = "sendMessage"
             /\ (last /\ turn[a].count > 1) => turn'[a].input.kind = "batch"
             /\ allowed = {} =>
                  /\ written' = written
                  /\ result.status = "denied"
                  /\ result.to = denied
             /\ (allowed # {} /\ denied # {} /\ req.body) =>
                  /\ written' = written \cup
                       {[from |-> a, to |-> x, kind |-> "sendMessage"] : x \in allowed}
                  /\ result.status = "sent"
                  /\ result.to = allowed
                  /\ result.denied = denied
             /\ (allowed # {} /\ denied # {} /\ ~req.body) =>
                  /\ written' = written
                  /\ result.status = "error"
                  /\ result.denied = NoList
    ]_allvars

\* C7 witness: ashigaru1 asked to send to shogun alone; nothing was written and
\* the provider is called with the sendMessage result that denies shogun.
C7_Witness ==
  /\ turn["ashigaru1"].pc = "provider"
  /\ turn["ashigaru1"].input.kind = "sendMessage"
  /\ Last(turn["ashigaru1"].input.results).status = "denied"
  /\ Last(turn["ashigaru1"].input.results).to = {"shogun"}
  /\ written = {}

\* The wait karou's turn of message m was suspended in is on record at the last
\* exit of the process, the process runs again, resumePendingWaits was called
\* and the other message k of the thread was enqueued in this run.
resumedWith(m, k) ==
  /\ up
  /\ crashes >= 1
  /\ exitWaits["karou"]["t1"].status = "pending"
  /\ exitWaits["karou"]["t1"].messageId = m
  /\ k # m
  /\ resumes["karou"].pc # "none"
  /\ calls[k].pc \notin {"none", "gone"}

\* The provider of karou is called with the result of the wait, message k.
gotWaited(k) ==
  /\ turn["karou"].pc = "provider"
  /\ turn["karou"].input = waitInput(k)

\* After a restart over the pending wait of message m, this run begins at most
\* one turn with m and no provider call of that turn gets the batch as input.
resumedOnce(m) ==
  (up /\ crashes >= 1 /\ exitWaits["karou"]["t1"].status = "pending"
      /\ exitWaits["karou"]["t1"].messageId = m)
    => /\ starts[m] <= 1
       /\ (turn["karou"].pc = "provider" /\ Head(turn["karou"].batch) = m)
            => turn["karou"].input.kind # "message"

\* C10: when a pending wait record of (thread, agent) survives a process exit and,
\* after the restart, a message for that (thread, agent) is enqueued and the
\* pending waits are resumed, the original turn is begun again at most once,
\* never with the original instruction as input, and the provider is called
\* with the arrived message as the waitForMessage result of status message
\* (unless the process exits again first).
C10_WaitSurvivesRestart ==
  /\ [](\A m \in Msgs : resumedOnce(m))
  /\ \A m \in Msgs, k \in Msgs : resumedWith(m, k) ~> (gotWaited(k) \/ ~up)

\* The turn of `a` runs on thread t and has written the record of a wait: it is
\* past the upsert of its first wait and has not ended.
suspendedOn(a, t) ==
  /\ turn[a].pc \notin {"idle", "session"}
  /\ threadOf(Head(turn[a].batch)) = t
  /\ \/ turn[a].waitRemaining < waitLimit - 1
     \/ turn[a].waitRemaining = waitLimit - 1 /\ turn[a].pc # "waitUpsert"
     \/ turn[a].resumed

\* C11: a wait record of (thread, agent) follows the suspended turn: it is on
\* disk while the agent has a turn on that thread that suspended in
\* waitForMessage and has not been cleared, it comes into being only when such a
\* turn writes it on suspending, and it goes away only when the turn of the
\* recorded message completes successfully.
C11_RecordFollowsSuspendedTurn ==
  /\ [](\A a \in Agents, t \in Threads : (up /\ suspendedOn(a, t)) => waits[a][t].status # "none")
  /\ [][\A a \in Agents, t \in Threads :
         /\ (waits[a][t].status = "none" /\ waits'[a][t].status # "none")
              => /\ turn[a].pc = "waitUpsert"
                 /\ threadOf(Head(turn[a].batch)) = t
                 /\ waits'[a][t].messageId = Head(turn[a].batch)
         /\ (waits[a][t].status # "none" /\ waits'[a][t].status = "none")
              => /\ turn[a].pc = "finRemove"
                 /\ waits[a][t].messageId = Head(turn[a].batch)]_allvars

\* Karou's turn is suspended in waitForMessage on t1 and enqueue has been called
\* for message m of that thread, ahead of every other message that is under way.
enqueuedToSuspended(m) ==
  /\ turn["karou"].pc = "waiting"
  /\ messageWaiter["karou"] = "t1"
  /\ calls[m].pc = "load"
  /\ \A k \in Msgs \ {m} : calls[k].pc \in {"none", "done"}

\* C12: while a karou turn is suspended in waitForMessage for a thread, the first
\* message enqueued to the runtime for that thread is not queued (so no separate
\* turn takes it) and is handed to the suspended turn: the next provider input is
\* the waitForMessage result of status message that carries it.
C12_FirstMessageWakesWait ==
  /\ [][\A m \in Msgs :
         (enqueuedToSuspended(m) \/ (calls[m].pc \in {"loaded", "upsert"} /\ calls'[m].pc = "done"
                                        /\ messageWaiter["karou"] = "t1"))
           => m \notin toSet(queue'["karou"])]_allvars
  /\ \A m \in Msgs : enqueuedToSuspended(m) ~> gotWaited(m)

\* No call of enqueue is between its first await and its end.
noEnqueueUnderWay == \A m \in Msgs : calls[m].pc \in {"none", "done", "gone"}

\* stop() has been called on every runtime and no runtime has got a message
\* since.
stopped == \A a \in Agents : stopRequested[a] /\ queue[a] = <<>>

allIdle == \A a \in Agents : ~busy[a] /\ queue[a] = <<>>

\* C13: after stopAll, with no enqueue under way or to come, every runtime is in
\* the end idle with an empty queue, whatever it was doing when stop was called.
C13_StopAllLeadsToIdle ==
  (stopped /\ noEnqueueUnderWay) ~> (allIdle \/ ~noEnqueueUnderWay)

\* The turn of `a` is at the end of runWithTools and was not cancelled.
turnEnds(a) == up /\ turn[a].pc = "post" /\ abortReason[a] = "null"

\* The file the claim describes for the turn of `a`: to the default superior of
\* the role, titled `auto_reply: ` + the head message's title, the trimmed output
\* as body.
statedReply(a) ==
  [from |-> a,
   to |-> CASE roleOf(a) = "shogun" -> "king" [] roleOf(a) = "karou" -> "shogun"
            [] OTHER -> "karou",
   kind |-> "auto_reply",
   title |-> [prefix |-> "auto_reply: ", title |-> Head(turn[a].batch), more |-> 0],
   body |-> trim(turn[a].output)]

\* The claim's three conditions on the final output of the turn of `a`.
statedReplyDue(a) ==
  /\ trim(turn[a].output) # ""
  /\ ~isToolOutput(turn[a].output)
  /\ statedReply(a).to \in statedRecipients(a)

\* C14: at the end of a turn that was not cancelled, an auto-reply file is
\* written if and only if the final output is non-empty after trimming, has no
\* line starting with a tool marker and the default superior of the role is an
\* allowed recipient; then exactly one file is written, to that superior, titled
\* `auto_reply: ` followed by the head message's title, with the trimmed output
\* as body.
C14_AutoReply ==
  [][\A a \in Agents :
       (turnEnds(a) /\ turn'[a].pc # "post") =>
         written' \ written = IF statedReplyDue(a) THEN {statedReply(a)} ELSE {}
    ]_allvars

\* C14 (amended): as C14, but the title is that of the head message followed by
\* ` (+n)` when the turn's batch holds n further messages.
C14_AutoReplyOfBatch ==
  [][\A a \in Agents :
       (turnEnds(a) /\ turn'[a].pc # "post") =>
         written' \ written =
           IF statedReplyDue(a)
           THEN {[statedReply(a) EXCEPT !.title.more = Len(turn[a].batch) - 1]}
           ELSE {}
    ]_allvars

\* C14 witness: the turn of the first message ended without an auto-reply, and
\* the turn of the batch of the two messages queued behind it wrote one.
C14_Witness ==
  /\ completion[1] = "resolved"
  /\ \A f \in written : f.title.title # 1
  /\ \E f \in written : f.kind = "auto_reply" /\ f.title.more = 1 /\ f.body = "text"

\* Generation g of the request file f is in tmp/restart/requests/.
requested(f, g) == pendingDir[f] = g

\* The handler was invoked with the request read from generation g of f, the
\* file is in tmp/restart/history/ under its name and the ledger file has the
\* key as done.
settled(f, g) ==
  /\ <<f, g>> \in handled
  /\ archiveDir[f] = g
  /\ ledgerDisk[f].status = "done"

\* C15: a .json file that appears in tmp/restart/requests/ leads to the restart
\* handler being invoked with the request parsed from it, the fleet being
\* stopped, the file being in tmp/restart/history/ under the same name and the
\* restart ledger marking it done.
C15_RequestLeadsToRestart ==
  /\ [][(restarting' /\ ~restarting) =>
         \A a \in Agents : stopRequested'[a] /\ queue'[a] = <<>>]_allvars
  /\ \A f \in RestartFiles, g \in 1..MaxDrops :
       requested(f, g) ~> (settled(f, g) /\ restarting)

\* C16: for a restart request the server process exits with code 75, and only
\* after the request file was archived and the restart ledger updated for it.
C16_ExitsWith75AfterArchive ==
  /\ [](exitCode = RESTART_EXIT_CODE =>
         \E f \in RestartFiles : archiveDir[f] # 0 /\ ledgerDisk[f].status = "done")
  /\ \A f \in RestartFiles, g \in 1..MaxDrops :
       (<<f, g>> \in handled) ~> (~up /\ exitCode = RESTART_EXIT_CODE)

C19_LoadAfterCrash ==
  [][(writer.pc = "down" /\ writer'.pc # "down") =>
       \/ loaded' = saved
       \/ writer.content # Absent /\ loaded' = writer.content
    ]_allvars

\* The ledger file has, or has had, the key of f as job_done or more: it has it
\* now, or the file was archived, which follows the save of job_done.
reachedJobDone(f) == isAtLeast(ledgerDisk, f, "job_done") \/ archiveDir[f] # 0

\* C18: once the ledger status of a key has reached job_done, the handler is
\* never invoked again for that key, neither for the same file seen again after
\* a restart nor for a new file dropped under the same name.
C18_NoHandlerAfterJobDone ==
  [][\A f \in Files :
       reachedJobDone(f) => ~(pc[f] # "handler" /\ pc'[f] = "handler")]_allvars
\* C20: for every thread id without '__' and every title, the stem the message
\* writer produced parses back in the watcher to the same thread id and to a
\* title equal to the slug of the input title, whatever date and 6-character
\* token the writer drew.
C20_StemParsesBack ==
  messageTitle.pc = "parsed" =>
    /\ messageTitle.parsed.threadId = messageTitle.threadId
    /\ messageTitle.parsed.title = slugify(messageTitle.title)
\* The ledger of the mailbox watcher holds job_done (or done) for the file.
handlerDone(f) == isAtLeast(ledgerMem, f, "job_done")

\* Message m is in the hands of some runtime: in an enqueue call, in a queue, in
\* a batch, or given to a provider.
inRuntime(m) ==
  \/ calls[m].pc # "none"
  \/ completion[m] # "none"
  \/ \E a \in Agents : m \in toSet(queue[a]) \cup toSet(turn[a].batch) \cup toSet(received[a])

toKing(f) == sent[messageOf(f)].to = "king"

\* The mailbox file is in the history directory and the ledger says done.
archivedDone(f) == archiveDir[f] # 0 /\ ledgerMem[f].status = "done"

\* What onMessage does for every message before it looks at the recipient.
surfaced(f) ==
  /\ stateStore.updatedAt[threadOf(messageOf(f))] > 0
  /\ stateStore.lastActiveThread # "none"
  /\ messageOf(f) \in broadcasts

\* C21: a message addressed to king is never enqueued into any agent runtime
\* and causes no provider call; when its handler has returned it has been
\* appended to history, the thread's updatedAt and the last-active thread have
\* been refreshed and the message event has been emitted, and the file is
\* archived when the ledger marks it done.
C21_KingOnlySurfaced ==
  \A f \in MailFiles :
    toKing(f) =>
      /\ ~inRuntime(messageOf(f))
      /\ handlerDone(f) => jsonl[f] >= 1 /\ surfaced(f)
      /\ ledgerMem[f].status = "done" => archiveDir[f] # 0

\* C21 (amended): the same, except that a message to king whose handler is called
\* while the server is restarting is skipped: it is appended to history,
\* archived and marked done, but updatedAt, the last-active thread and the
\* clients are left as they were.
C21_KingSurfacedUnlessRestarting ==
  /\ [](\A f \in MailFiles :
          toKing(f) =>
            /\ ~inRuntime(messageOf(f))
            /\ handlerDone(f) => jsonl[f] >= 1
            /\ ledgerMem[f].status = "done" => archiveDir[f] # 0)
  /\ [][\A f \in MailFiles :
          (toKing(f) /\ ~handlerDone(f) /\ handlerDone(f)') =>
            IF restarting /\ onMessagePc[f] = "none"
            THEN UNCHANGED <<stateStore, broadcasts>>
            ELSE surfaced(f)']_allvars

\* C21 witness: a message to king was surfaced, archived and marked done while
\* another one, handled during the restart, was archived without an event.
C21_Witness ==
  /\ toKing("m1") /\ archivedDone("m1") /\ surfaced("m1")
  /\ toKing("m2") /\ archivedDone("m2") /\ 2 \notin broadcasts

\* The restart's stopAll() cancelled message m: it was dropped from a queue or
\* its turn was aborted, and the server is restarting.
cancelledByRestart(m) == restarting /\ isRestartStop(completion[m])

\* C22: work in flight when a restart request is handled is not lost: a message
\* that was queued, or in a running turn, when the restart's stopAll() cancelled
\* it is not marked job_done, and its mailbox file stays in message_processing/
\* (where the next start finds it).
C22_InFlightKeptForRespawn ==
  \A f \in MailFiles :
    cancelledByRestart(messageOf(f)) => ~handlerDone(f) /\ processingDir[f] # 0

\* The runtime of `a` after a step that ended its turn while q was queued: it is
\* idle when q is empty, and otherwise in a new turn for the head of q.
idleOrNext(a, q) ==
  IF q = <<>>
  THEN ~busy'[a] /\ turn'[a] = IdleTurn
  ELSE busy'[a] /\ turn'[a].pc = "session" /\ Head(turn'[a].batch) = Head(q)

\* C23: if provider.sendMessage fails during a turn for a reason other than stop
\* or interrupt, the completion promises of all messages in the batch are
\* rejected and the runtime returns to idle and goes on with the rest of its
\* queue; the watcher does not raise the ledger status of a message so rejected
\* to job_done, and its mailbox file stays in message_processing/.
C23_ProviderFailureLeavesFiles ==
  /\ [][\A a \in Agents :
          (providerThrows(a) /\ abortReason[a] = "null") =>
            /\ \A m \in toSet(turn[a].batch) : completion'[m] = "provider failed"
            /\ idleOrNext(a, queue[a])]_allvars
  /\ [](\A f \in MailFiles :
          completion[messageOf(f)] = "provider failed" =>
            ~handlerDone(f) /\ processingDir[f] # 0)

\* C23 witness: the provider failed in the turn of the batch of messages 2 and 3;
\* the watcher has logged both errors, both files are in message_processing/
\* below job_done, and karou is idle.
C23_Witness ==
  /\ completion[2] = "provider failed" /\ completion[3] = "provider failed"
  /\ 2 \in toSet(received["karou"]) /\ starts[3] = 0
  /\ pc["m2"] = "idle" /\ pc["m3"] = "idle"
  /\ processingDir["m2"] # 0 /\ processingDir["m3"] # 0
  /\ ~handlerDone("m2") /\ ~handlerDone("m3")
  /\ ~busy["karou"]

\* The request at the head of the tool loop of `a` is an interruptAgent that runs.
interrupts(a) ==
  /\ turn[a].pc = "tools"
  /\ ~turn[a].waitEncountered
  /\ Head(turn[a].tools).name = "interruptAgent"

\* C24: when stop() or interrupt() cancels work, the completion promise of every
\* message drained from the queue is rejected ("agent stopped" for stop), a
\* suspended waitForMessage returns null, and no message of a batch that was in
\* flight when stop() hit its turn during the session setup, the provider call
\* or the wait is reported to its enqueuer as successfully completed.
C24_CancelledNeverResolved ==
  /\ [][stopRuntimes =>
          \A b \in Agents :
            /\ \A m \in toSet(queue[b]) : completion'[m] = "agent stopped"
            /\ messageWaiter'[b] = "none"
            /\ turn[b].pc = "waiting" => turn'[b].pc = "woken" /\ turn'[b].waited = 0]_allvars
  /\ [][\A a \in Agents :
          (interrupts(a) /\ toolStep(a)) =>
            \A b \in interruptAllowed(a, Head(turn[a].tools).to) :
              /\ \A m \in toSet(queue[b]) : completion'[m] \in Errors
              /\ messageWaiter'[b] = "none"
              /\ turn[b].pc = "waiting" => turn'[b].pc = "woken" /\ turn'[b].waited = 0]_allvars
  /\ [][\A a \in Agents :
          busy[a] /\ stopRequested[a] =>
            \A m \in toSet(turn[a].batch) :
              completion[m] = "pending" => completion'[m] # "resolved"]_allvars

\* C25: after stop() is called during a turn the runtime starts no further
\* provider.sendMessage call for that turn, and no message that stop() drained
\* from the queue is ever passed to the provider.
C25_NoProviderCallAfterStop ==
  /\ [][\A a \in Agents :
          busy[a] /\ stopRequested[a] /\ turn[a].pc # "provider" =>
            turn'[a].pc # "provider" /\ received'[a] = received[a]]_allvars
  /\ [](\A m \in MsgIds, a \in Agents :
          completion[m] = "agent stopped" => m \notin toSet(received[a]))

\* C25 witness: stop() hit the turn of message 1 after the provider had got it
\* and while message 2 was queued; the turn has ended, the provider has got
\* nothing more and message 2 was rejected.
C25_Witness ==
  \E a \in Served :
    /\ sent[1].to = a /\ sent[2].to = a
    /\ completion[1] = "agent aborted: stop" /\ completion[2] = "agent stopped"
    /\ received[a] = <<1>>
    /\ ~busy[a]

\* C26: interrupt() clears the queue but does not block later work: the interrupt
\* message, which the interruptAgent tool writes after it has triggered the
\* interrupt and which is enqueued after interrupt() has returned, is not
\* rejected by that interrupt, and it is processed in a new turn (it is in the
\* batch of a turn that starts after the interrupt) once the aborted turn has
\* ended.
C26_EnqueuedAfterInterruptProcessed ==
  /\ [](completion[3] \notin {"agent interrupted: interrupt", "agent interrupted: stop"})
  /\ (calls[3].pc = "load") ~> (3 \in toSet(turn["karou"].batch))

\* The direct subordinates of a runtime: karou for shogun, the ashigaru for
\* karou, nobody for an ashigaru.
directSubordinates(a) ==
  CASE a = "shogun" -> {"karou"}
    [] a = "karou" -> {"ashigaru1", "ashigaru2"}
    [] OTHER -> {}

\* Nothing of the runtime of b is changed by the step, and no message is written
\* to b.
untouched(b) ==
  /\ queue'[b] = queue[b]
  /\ messageWaiter'[b] = messageWaiter[b]
  /\ abortReason'[b] = abortReason[b]
  /\ abortController'[b] = abortController[b]
  /\ stopRequested'[b] = stopRequested[b]
  /\ \A m \in toSet(queue[b]) \cup toSet(turn[b].batch) : completion'[m] = completion[m]
  /\ \A w \in written' \ written : w.to # b

\* The result the tool loop has recorded for the request the step ran (the only
\* request of the output).
recorded(a) == turn'[a].input.results[1]

indexOf(q, m) == CHOOSE k \in 1..Len(q) : q[k] = m
inOrderOf(s, q) ==
  \A i \in 1..Len(s), j \in 1..Len(s) : i < j => indexOf(q, s[i]) < indexOf(q, s[j])

\* The queue of `a` at the moment the step calls processQueue: with the message
\* the step pushes, when it is the end of an enqueue.
queuedThen(a) ==
  LET pushed == {m \in MsgIds : calls[m].pc = "loaded" /\ calls'[m].pc = "done" /\ sent[m].to = a}
  IN IF pushed = {} THEN queue[a] ELSE Append(queue[a], CHOOSE m \in pushed : TRUE)

\* The step starts a turn of `a`.
begins(a) ==
  /\ turn'[a].batch # <<>>
  /\ starts'[Head(turn'[a].batch)] = starts[Head(turn'[a].batch)] + 1

\* C28: every turn's batch contains messages of a single thread only: the head of
\* the queue plus all other entries with the same threadId that are queued at
\* that moment, in queue order; the entries of other threads stay in the queue
\* in their original relative order.
C28_BatchIsOneThread ==
  /\ [](\A a \in Agents : \A m \in toSet(turn[a].batch) :
          threadOf(m) = threadOf(Head(turn[a].batch)))
  /\ [][\A a \in Agents :
          begins(a) =>
            LET q == queuedThen(a)
                batch == turn'[a].batch
            IN /\ Head(batch) = Head(q)
               /\ toSet(batch) = {m \in toSet(q) : threadOf(m) = threadOf(Head(q))}
               /\ inOrderOf(batch, q)
               /\ toSet(queue'[a]) = toSet(q) \ toSet(batch)
               /\ Len(queue'[a]) + Len(batch) = Len(q)
               /\ inOrderOf(queue'[a], q)]_allvars

\* C28 witness: the turn that began with three messages queued took the first
\* and the third, which are of one thread, and left the second, which is of the
\* other thread.
C28_Witness ==
  /\ turn["karou"].batch = <<1, 3>>
  /\ queue["karou"] = <<2>>
  /\ threadOf(1) = threadOf(3) /\ threadOf(1) # threadOf(2)

\* The earliest message of thread t in q.
earliest(q, t) ==
  q[CHOOSE k \in 1..Len(q) :
      threadOf(q[k]) = t /\ \A i \in 1..(k - 1) : threadOf(q[i]) # t]

\* m was taken out of the queue by a waitForMessage: it was enqueued, it is
\* neither queued nor in the batch of the turn, and its promise is not settled.
popped(a, m) ==
  /\ sent[m] # NoMsg /\ sent[m].to = a
  /\ calls[m].pc = "done"
  /\ completion[m] = "pending"
  /\ m \notin toSet(queue[a]) \cup toSet(turn[a].batch)

\* C29: if, when a turn calls waitForMessage, the queue already holds a message
\* for the turn's thread, the earliest such message is removed from the queue
\* and returned as the wait result without suspending, and it is never also
\* processed as a separate turn.
C29_QueuedMessageIsWaitResult ==
  /\ [][\A a \in Agents :
          (waitForMessage(a) /\ ofThread(queue[a], threadOf(Head(turn[a].batch))) # <<>>) =>
            LET e == earliest(queue[a], threadOf(Head(turn[a].batch)))
            IN /\ turn'[a].pc = "woken" /\ turn'[a].waited = e
               /\ messageWaiter'[a] = "none"
               /\ e \notin toSet(queue'[a])
               /\ Len(queue'[a]) = Len(queue[a]) - 1]_allvars
  /\ [][\A a \in Agents, m \in MsgIds :
          popped(a, m) => popped(a, m)' /\ starts'[m] = starts[m]]_allvars

\* The wait of the turn of `a` has ended as timed out: the tool result that is
\* the next input says timeout and so does the persisted record of the thread.
timedOut(a) ==
  /\ turn[a].input.kind = "waitForMessage"
  /\ turn[a].input.results[1].status = "timeout"
  /\ waits[a][threadOf(Head(turn[a].batch))].status = "timeout"

\* C30: every suspension in waitForMessage ends: for every timeoutMs >= 0 a tool
\* line can carry (the default when absent), if no message for the thread
\* arrives and no stop or interrupt occurs, the waiter is resolved with null at
\* expiry, the persisted wait record becomes timeout and the tool result is
\* {status: timeout}.
C30_EverySuspensionEnds ==
  /\ [][timerFires("karou") =>
          turn'["karou"].pc = "woken" /\ turn'["karou"].waited = 0
            /\ messageWaiter'["karou"] = "none"]_allvars
  /\ (turn["karou"].pc = "waiting") ~> timedOut("karou")

\* The request at the head of the tool loop of `a` is a waitForMessage that the
\* role may use and that no wait of the same output precedes; limitHit when the
\* turn has no wait left.
waitCalled(a) ==
  /\ turn[a].pc = "tools"
  /\ ~turn[a].waitEncountered
  /\ Head(turn[a].tools).name = "waitForMessage"
  /\ roleOf(a) \in {"karou", "shogun"}
limitHit(a) == waitCalled(a) /\ turn[a].waitRemaining <= 0

\* What a limit-hit call does apart from the loop limit: it returns at once the
\* timeout result with limitReached, writes no wait record and installs no
\* waiter.
returnsLimitReached(a) ==
  /\ waits' = waits /\ messageWaiter' = messageWaiter /\ timers' = timers
  /\ turn'[a].pc \notin {"waitUpsert", "wfmLoad", "wfmLoaded", "waiting"}
  /\ IF Tail(turn[a].tools) = <<>>
     THEN turn'[a].input.results = <<limitResult>>
     ELSE turn'[a].results = <<limitResult>>

\* At most waitLimit suspensions in a turn, and every real wait raises maxLoops
\* by one.
waitsCounted ==
  /\ [](\A a \in Agents : busy[a] /\ turn[a].pc # "session" =>
          turn[a].waitRemaining \in 0..waitLimit)
  /\ [][\A a \in Agents :
          /\ waitStart(a) => turn[a].waitRemaining > 0
                               /\ turn'[a].waitRemaining = turn[a].waitRemaining - 1
          /\ turn[a].pc = "waiting" /\ turn'[a].pc # "waiting" => turn'[a].pc = "woken"
          /\ (turn[a].pc = "woken" /\ ~turn[a].resumed /\ afterWait(a)) =>
               turn'[a].maxLoops = turn[a].maxLoops + 1]_allvars

C32_LinesAfterWaitSkipped ==
  [][\A a \in Agents :
       (turn[a].pc = "tools" /\ turn[a].waitEncountered /\ toolStep(a)) =>
         /\ written' = written
         /\ queue' = queue /\ completion' = completion /\ messageWaiter' = messageWaiter
         /\ abortReason' = abortReason /\ abortController' = abortController
         /\ waits' = waits
         /\ \A b \in Agents \ {a} : turn'[b] = turn[b]
         /\ IF Tail(turn[a].tools) = <<>>
            THEN turn'[a].input.results = turn[a].results
            ELSE turn'[a].results = turn[a].results]_allvars

\* C32 witness: the provider is called with the result of an output of two tool
\* lines, a waitForMessage that hit the limit and a sendMessage: the result has
\* the one entry of the wait, and no file was written in the turn although every
\* output with a sendMessage or interruptAgent line had it after a wait.
C32_Witness ==
  /\ turn["karou"].pc = "provider"
  /\ turn["karou"].input.kind = "batch"
  /\ turn["karou"].input.results = <<limitResult>>
  /\ written = {}

\* ---------------------------------------------------------------- C33
\* The rank the ledger gives key f, in memory or in its file.
ledgerRank(f) ==
  IF statusRank(ledgerMem[f].status) >= statusRank(ledgerDisk[f].status)
  THEN statusRank(ledgerMem[f].status) ELSE statusRank(ledgerDisk[f].status)

\* A key at least "history" has its line in messages.jsonl.
historyAppended ==
  \A f \in MailFiles : ledgerRank(f) >= statusRank("history") => jsonl[f] >= 1

\* While the process runs the ledger file never holds more than the entries in
\* memory, and the entries rise to "job_done" or beyond only in the step in
\* which the handler returns without throwing (a start loads them from the file).
jobDoneAfterReturn ==
  \A f \in Files :
    /\ up => statusRank(ledgerDisk[f].status) <= statusRank(ledgerMem[f].status)
    /\ statusRank(ledgerDisk'[f].status) > statusRank(ledgerDisk[f].status)
         => ledgerDisk'[f] = ledgerMem[f]
    /\ (up /\ statusRank(ledgerMem'[f].status) >= statusRank("job_done")
           /\ statusRank(ledgerMem[f].status) < statusRank("job_done"))
         => pc[f] = "handler" /\ pc'[f] \in {"saveJobDone", "archive"}

\* Key f is "done" only with its file archived and in neither mailbox directory.
doneArchived(f) ==
  ledgerRank(f) = statusRank("done")
    => archiveDir[f] # 0 /\ pendingDir[f] = 0 /\ processingDir[f] = 0

\* C33 as stated: the ledger never runs ahead of the side effects it records:
\* history only after the append, job_done only after the handler returned
\* without throwing, done only with the file at its archive path and in neither
\* message_to/ nor message_processing/.
C33_LedgerBehindEffects ==
  /\ [](historyAppended /\ \A f \in Files : doneArchived(f))
  /\ [][jobDoneAfterReturn]_allvars

\* C33 amended: the same, the "done" part for keys under which one file only
\* was ever written.
C33_LedgerBehindEffectsUniqueName ==
  /\ [](historyAppended /\ \A f \in Files : dropCount[f] <= 1 => doneArchived(f))
  /\ [][jobDoneAfterReturn]_allvars

\* A mailbox file written once is archived and "done" in the ledger file after
\* the process was started again.
C33_Witness ==
  \E f \in MailFiles :
    /\ dropCount[f] = 1
    /\ crashes > 0
    /\ up
    /\ ledgerDisk[f].status = "done"
    /\ ledgerMem[f].status = "done"
    /\ jsonl[f] >= 1
    /\ archiveDir[f] # 0

\* ---------------------------------------------------------------- C34
\* The upserts of the wait record of (a, t) that were issued to the wait store and
\* are not written yet: those of enqueue calls, of fired timers and of the turn.
upsertsInFlight(a, t) ==
  Cardinality({m \in Msgs : calls[m].pc = "upsert" /\ sent[m].to = a /\ threadOf(m) = t})
    + Cardinality({tm \in timers : tm.pc = "upsert" /\ tm.agent = a /\ tm.threadId = t})
    + (IF turn[a].pc = "waitUpsert" /\ threadOf(Head(turn[a].batch)) = t THEN 1 ELSE 0)

\* C34: the writes to a persistent store are serialized: two writes to the same
\* store never overlap (and so take effect in the order they were issued); here
\* for the wait store, whose writes to one record are never two at a time.
C34_StoreWritesNeverOverlap ==
  \A a \in Agents, t \in Threads : upsertsInFlight(a, t) <= 1

\* ---------------------------------------------------------------- provider sessions
\* How many turns a runtime begins here.
MaxSessionTurns == 3

\* The provider thread id of a session that state.json held at the start.
StoredId == 1

\* The state files the server may start on: thread t1, with or without t2, and
\* for karou in t1 no session, a session not yet initialized, or an initialized one.
StateFiles ==
  {[threads |-> known,
    sessions |-> [a \in Agents |-> [t \in Threads |->
                    IF a = "karou" /\ t = "t1" THEN session ELSE NoSession]]] :
     known \in {{"t1"}, Threads},
     session \in {NoSession, [threadId |-> StoredId, initialized |-> FALSE],
                  [threadId |-> StoredId, initialized |-> TRUE]}}

\* The runtimes that take turns here.
SessionAgents == {"shogun", "karou"}

sessionOf_NoneMutant(a, t) == NoSession

\* state.sessions[this.options.agentId] of the thread ensureSession was called for.
sessionOf(a, t) == sessions[a][t]

\* StateStore.setSession: nothing when the store has no such thread.
setSession(t, a, session) ==
  IF t \in threads THEN [sessions EXCEPT ![a][t] = session] ELSE sessions

\* StateStore.markSessionInitialized: nothing without the thread or the session.
markSessionInitialized(t, a) ==
  IF t \in threads /\ sessions[a][t] # NoSession
  THEN [sessions EXCEPT ![a][t].initialized = TRUE] ELSE sessions

\* What a session step leaves alone.
sessionOthers ==
  <<pendingDir, processingDir, archiveDir, jsonl, ledgerDisk, up, ledgerMem, saveChain,
    events, pc, msg, dropCount, handled, crashes, startFound, clock, lvars,
    disk, writer, loaded, saved, messageTitle, onMessagePc, stateStore, broadcasts, rvars>>

\* The turn of `a` goes on with the provider thread `id`.
sessionReturned(a, t, id) ==
  /\ sessionTurn' = [sessionTurn EXCEPT ![a] = [pc |-> "run", threadId |-> t, session |-> id]]
  /\ sessionLog' = [sessionLog EXCEPT ![a][t].used = @ \cup {id}, ![a][t].turns = @ + 1]

\* processQueue calls ensureSession(threadId) for the batch of thread t:
\* ensureSession up to its first await. Without the thread it throws and the
\* turn fails; without a session it calls provider.createThread; with one that
\* is not initialized it sends the system prompt; otherwise it returns the
\* session's provider thread id.
ensureSessionCalled(a, t) ==
  /\ sessionTurn[a].pc = "idle"
  /\ sessionLog[a]["t1"].turns + sessionLog[a]["t2"].turns < MaxSessionTurns
  /\ IF t \notin threads
     THEN /\ sessionLog' = [sessionLog EXCEPT ![a][t].turns = @ + 1]
          /\ UNCHANGED sessionTurn
     ELSE IF sessionOf(a, t).threadId = 0
     THEN /\ sessionTurn' = [sessionTurn EXCEPT ![a] =
                               [pc |-> "createThread", threadId |-> t, session |-> 0]]
          /\ UNCHANGED sessionLog
     ELSE IF ~sessionOf(a, t).initialized
     THEN /\ sessionTurn' = [sessionTurn EXCEPT ![a] =
                               [pc |-> "initialize", threadId |-> t,
                                session |-> sessionOf(a, t).threadId]]
          /\ UNCHANGED sessionLog
     ELSE sessionReturned(a, t, sessionOf(a, t).threadId)
  /\ UNCHANGED <<threads, sessions, providerThreads>>
  /\ UNCHANGED sessionOthers

\* provider.createThread returns a new thread: the session is set, initialized,
\* and stateStore.save() is awaited.
createThreadReturns(a) ==
  LET t == sessionTurn[a].threadId
      id == StoredId + providerThreads + 1
  IN /\ sessionTurn[a].pc = "createThread"
     /\ providerThreads' = providerThreads + 1
     /\ sessions' = setSession(t, a, [threadId |-> id, initialized |-> TRUE])
     /\ sessionTurn' = [sessionTurn EXCEPT ![a].pc = "save", ![a].session = id]
     /\ sessionLog' = [sessionLog EXCEPT ![a][t].created = @ + 1]
     /\ UNCHANGED threads
     /\ UNCHANGED sessionOthers

\* provider.sendMessage with the system prompt returns: the session is marked
\* initialized and stateStore.save() is awaited.
initializeReturns(a) ==
  LET t == sessionTurn[a].threadId
  IN /\ sessionTurn[a].pc = "initialize"
     /\ sessions' = markSessionInitialized(t, a)
     /\ sessionTurn' = [sessionTurn EXCEPT ![a].pc = "save"]
     /\ sessionLog' = [sessionLog EXCEPT ![a][t].inits = @ + 1]
     /\ UNCHANGED <<threads, providerThreads>>
     /\ UNCHANGED sessionOthers

\* The provider call of ensureSession throws: the turn fails.
sessionThrows(a) ==
  /\ sessionTurn[a].pc \in {"createThread", "initialize"}
  /\ sessionTurn' = [sessionTurn EXCEPT ![a] = NoSessionTurn]
  /\ sessionLog' = [sessionLog EXCEPT ![a][sessionTurn[a].threadId].turns = @ + 1]
  /\ UNCHANGED <<threads, sessions, providerThreads>>
  /\ UNCHANGED sessionOthers

\* The save is written: ensureSession returns session.threadId.
sessionSaved(a) ==
  /\ sessionTurn[a].pc = "save"
  /\ sessionReturned(a, sessionTurn[a].threadId, sessionTurn[a].session)
  /\ UNCHANGED <<threads, sessions, providerThreads>>
  /\ UNCHANGED sessionOthers

\* The turn ends.
sessionTurnEnds(a) ==
  /\ sessionTurn[a].pc = "run"
  /\ sessionTurn' = [sessionTurn EXCEPT ![a] = NoSessionTurn]
  /\ UNCHANGED <<threads, sessions, providerThreads, sessionLog>>
  /\ UNCHANGED sessionOthers

DNext ==
  \/ \E a \in SessionAgents, t \in Threads : ensureSessionCalled(a, t)
  \/ \E a \in SessionAgents : createThreadReturns(a)
  \/ \E a \in SessionAgents : initializeReturns(a)
  \/ \E a \in SessionAgents : sessionThrows(a)
  \/ \E a \in SessionAgents : sessionSaved(a)
  \/ \E a \in SessionAgents : sessionTurnEnds(a)

\* Two runtimes take turns in the threads of a server that started on any of
\* the state files.
SessionInit ==
  \E state \in StateFiles : StartedOn("bin", state) /\ RInit /\ messageTitle = NoTitle

SpecSession == SessionInit /\ [][DNext]_allvars

\* ---------------------------------------------------------------- C35
\* The sessions a thread holds are never replaced and never lose their
\* initialization, and the provider is asked for a thread only without a
\* session and for the initialization only before the session is initialized.
sessionKept ==
  \A a \in Agents, t \in Threads :
    sessions[a][t] # NoSession =>
      /\ sessions'[a][t].threadId = sessions[a][t].threadId
      /\ sessionLog'[a][t].created = sessionLog[a][t].created
      /\ sessions[a][t].initialized =>
           sessions'[a][t].initialized /\ sessionLog'[a][t].inits = sessionLog[a][t].inits

\* C35: ensureSession is idempotent per (threadId, agentId): once a session is
\* recorded every later turn of the agent in the thread uses its provider
\* thread id, and createThread and the system-prompt initialization are not
\* executed again (the system prompt is given to a provider thread once, by
\* createThread or by the initialization of a stored session); without the
\* thread in the state store the turn fails and no provider thread is created.
C35_EnsureSessionIdempotent ==
  /\ [](\A a \in Agents, t \in Threads :
          /\ sessionLog[a][t].created + sessionLog[a][t].inits <= 1
          /\ sessionLog[a][t].used \subseteq {sessions[a][t].threadId} \ {0}
          /\ sessionTurn[a].pc = "run" => sessionTurn[a].session = sessions[a][sessionTurn[a].threadId].threadId
          /\ t \notin threads =>
               sessionLog[a][t].created = 0 /\ sessionLog[a][t].used = {}
                 /\ sessions[a][t] = NoSession)
  /\ [][sessionKept]_allvars

\* C35 witness: karou is in its second turn in a thread whose session its first
\* turn there created, and a turn of a thread that the store does not hold failed.
C35_Witness ==
  /\ sessionLog["karou"]["t1"].turns = 2
  /\ sessionLog["karou"]["t1"].created = 1
  /\ sessionTurn["karou"] = [pc |-> "run", threadId |-> "t1", session |-> sessions["karou"]["t1"].threadId]
  /\ \E a \in SessionAgents, t \in Threads : t \notin threads /\ sessionLog[a][t].turns > 0

\* ---------------------------------------------------------------- C39
\* C39: every turn terminates whatever the provider answers: the provider calls
\* of one runWithTools execution are bounded, by the initial loop limit and one
\* more call for each wait the turn is allowed, even when every answer is a
\* waitForMessage line.
C39_ProviderCallsBounded ==
  \A a \in Agents :
    /\ turn[a].maxLoops <= maxLoopsInitial + waitLimit
    /\ turn[a].pc = "provider" => turn[a].i < maxLoopsInitial + waitLimit

\* ---------------------------------------------------------------- C38
\* C38: a runtime never rests idle with a non-empty queue: whenever busy is
\* false and the queue is not empty a processQueue run follows (the runtime
\* becomes busy) or the queue is emptied, also for a message enqueued between a
\* stop() call and the end of the turn that the stop cancelled.
C38_IdleQueueIsServed ==
  \A a \in Agents : (~busy[a] /\ queue[a] # <<>>) ~> (busy[a] \/ queue[a] = <<>>)

\* ---------------------------------------------------------------- C37
\* C37: the promise enqueue returned for a queued message settles once the
\* message has left the queue, at the latest when the turn that took it ends,
\* also when waitForMessage took it as a wait result: no promise is pending
\* for a message that is not queued while its runtime is idle.
C37_LeftQueueSettles ==
  \A a \in Agents, m \in MsgIds :
    (sent[m] # NoMsg /\ sent[m].to = a /\ completion[m] = "pending" /\ ~busy[a])
      => m \in toSet(queue[a])

\* ---------------------------------------------------------------- C36
\* Where an accepted message of `a` can be: in an enqueue call that has not
\* returned, in the queue, in the batch or a wait result of the running turn,
\* in an input the provider got, in a wait record as receivedMessage, or
\* rejected through its completion promise.
accounted(a, m) ==
  \/ calls[m].pc # "done"
  \/ m \in toSet(queue[a]) \cup toSet(turn[a].batch) \cup toSet(received[a])
  \/ turn[a].waited = m
  \/ m \in toSet(turn[a].input.ids) \cup toSet(messagesOf(turn[a].results))
  \/ \E t \in Threads : waits[a][t].receivedMessage = m
  \/ completion[m] \in Errors

\* C36: no message accepted by enqueue is silently lost, whatever the
\* interleaving of enqueue calls, wait timeouts and the turn's writes of the
\* wait record: it is in a provider input, on its way to one, kept in the wait
\* record as receivedMessage, or rejected through its completion promise.
C36_NoMessageLost ==
  \A a \in Agents, m \in MsgIds : (sent[m] # NoMsg /\ sent[m].to = a) => accounted(a, m)

\* ---------------------------------------------------------------- C40
\* C40: a restart request file triggers at most one restart: the restart
\* handler is not invoked for a file for which it was invoked before, in this
\* process or in the one before it, wherever that one stood when it exited.
C40_OneRestartPerRequest ==
  [][\A f \in RestartFiles :
       (pc[f] = "callHandler" /\ pc'[f] = "handler") => <<f, msg[f]>> \notin handled]_allvars
====
